---- MODULE Spec2Model ----
(***************************************************************************)
(* Lazy-materialization cache engine of s3archivefs: bootstrap of the      *)
(* sparse cache file (repo.rs, Local::new), the intercepted positioned     *)
(* read (hook_helper.rs / squashfs.rs, archive_read_at) and the range      *)
(* fill (repo.rs, Local::request_remote_data_task).                        *)
(*                                                                         *)
(* Scale: a byte is a small natural number; the superblock is SB_SIZE      *)
(* bytes holding the two fields the engine reads (inode_table_start,       *)
(* block_log); a hole is an unwritten offset of the cache file and reads   *)
(* as zero.                                                                *)
(***************************************************************************)
EXTENDS Integers, Sequences, FiniteSets, TLC

\* ---------------------------------------------------------------- bounds
\* Length in bytes of the remote object (the archive).
ArchiveLen == 6
\* Largest size of one positioned read issued by the archive library.
MaxRead == 2
\* Largest value of the flags word of an open request.
MaxFlags == 127
\* Largest link count, modification time and whole 512-byte sectors of the
\* size of an inode handed to Archive::stat.
MaxNlink == 2
MaxTime == 2
MaxSectors == 2
\* chunk sizes a user gives: up to and beyond MAX_CHUNK_SIZE
MaxChunk == 260
\* entries of a listing, and the largest max-keys of a request
MaxEntries == 3
MaxKeys == 2
\* owners of the Archive when the mount starts, and callbacks of one mount
MaxStrong == 2
MaxCalls == 3
\* arguments on the mount program's command line
MaxArgs == 7

\* -------------------------------------------------------------- constants
\* size_of::<sqfs_super_t>(), scaled to the two fields the engine uses.
SB_SIZE == 2
\* Radix of the text encoding of the superblock in the user-metadata.
RADIX == 4
\* Duration::new(10, 0), the lock wait of a fill, in clock ticks.
LOCK_TIMEOUT == 2
\* libc::O_ACCMODE, libc::O_RDONLY, libc::EACCES
O_ACCMODE == 3
O_RDONLY == 0
EACCES == 13
\* libc::S_IFMT and the file-type bits Archive::stat sets.
S_IFMT == 61440
S_IFSOCK == 49152
S_IFLNK == 40960
S_IFREG == 32768
S_IFBLK == 24576
S_IFDIR == 16384
S_IFCHR == 8192
S_IFIFO == 4096
\* Width of the u64 in which Archive::stat computes st_blocks, scaled.
U64_BITS == 20
\* repo.rs MAX_CHUNK_SIZE is 2^32 and an f32 has 24 significant bits; both
\* are scaled alike: the clamp is 2^8, the significand has 4 bits.
MAX_CHUNK_SIZE == 256
F32_MANT == 4

Procs == {1, 2}
NoProc == 0
Hole == -1
SB_KEY == "s3archivefs-superblock"
INSTALL_KEY == "S3ARCHIVEFS-SUPERBLOCK"
BlockLogs == {1, 2}
ChunkSizes == {0, 4}
Modes == {"LSEEK", "ALLZERO"}

Min(S) == CHOOSE x \in S : \A y \in S : x <= y
Max(S) == CHOOSE x \in S : \A y \in S : x >= y

RECURSIVE Pow2(_)
Pow2(n) == IF n = 0 THEN 1 ELSE 2 * Pow2(n - 1)

RECURSIVE FloorLog2(_)
FloorLog2(n) == IF n <= 1 THEN 0 ELSE 1 + FloorLog2(n \div 2)

\* x >> k and x << k on non-negative integers.
Shr(x, k) == x \div Pow2(k)
Shl(x, k) == x * Pow2(k)

\* ------------------------------------------------------- superblock bytes
\* The superblock as bytes: field inode_table_start, then field block_log.
SuperBytes(its, bl) == <<its, bl>>
sb_inode_table_start(bytes) == bytes[1]
sb_block_log(bytes) == bytes[2]
sb_block_size(bytes) == Pow2(bytes[2])

\* What sqfs_super_read accepts: a known block_log and a table offset that
\* lies behind the superblock.  A hole reads as zeros and is rejected.
SuperValid(bytes) ==
    /\ Len(bytes) = SB_SIZE
    /\ bytes[2] \in BlockLogs
    /\ bytes[1] >= SB_SIZE

\* ------------------------------------------------ user-metadata encoding
\* base64::encode, scaled: two radix-RADIX digits per byte.
RECURSIVE base64_encode(_)
base64_encode(bytes) ==
    IF bytes = <<>> THEN <<>>
    ELSE <<Head(bytes) \div RADIX, Head(bytes) % RADIX>> \o base64_encode(Tail(bytes))

RECURSIVE DecodeDigits(_)
DecodeDigits(s) ==
    IF s = <<>> THEN <<>>
    ELSE <<s[1] * RADIX + s[2]>> \o DecodeDigits(SubSeq(s, 3, Len(s)))

\* base64::decode: an error for a digit outside the alphabet or a
\* truncated group, else the decoded bytes.
base64_decode(s) ==
    IF (\E i \in 1..Len(s) : s[i] \notin 0..(RADIX - 1)) \/ Len(s) % 2 # 0
    THEN [ok |-> FALSE, bytes |-> <<>>]
    ELSE [ok |-> TRUE, bytes |-> DecodeDigits(s)]

VARIABLES
    remote,     \* the remote object body: offset -> byte
    usermeta,   \* the remote object's user-metadata
    fexists,    \* the cache path exists
    flen,       \* length of the cache file
    fdata,      \* cache file contents: offset -> byte, or Hole when unwritten
    lock,       \* holder of the exclusive advisory lock on the cache file
    pc,         \* per process: position
    arg,        \* per process: arguments of Local::new
    boot,       \* per process: locals of Local::new
    ctx,        \* per process: the Local made by Local::new (with its Archive)
    rd,         \* per process: the positioned read in progress / last done
    fill,       \* per process: locals of request_remote_data_task
    bound,      \* per process: the Local held by its thread's CONTEXT
    fi,         \* the last open request the mount served: flags and result
    st,         \* the last inode handed to Archive::stat and the stat it made
    inst,       \* the install command: the local archive and how far it got
    chk,        \* the last chunk size given to Local::new and its chunk_log
    hnd,        \* the mount's Archive handle: its counts and the last callback
    av,         \* the mount program's command line as main works through it
    pg,         \* the last listing request and the page filter_result made
    mounts      \* the processes that use the cache path

vars == <<remote, usermeta, fexists, flen, fdata, lock, pc, arg, boot, ctx, rd, fill, bound,
          fi, st, inst, chk, hnd, av, pg, mounts>>

Offsets == 0..(ArchiveLen - 1)

\* ------------------------------------------------------------ the remote
RemoteOf(its, bl, d) ==
    [o \in Offsets |->
        IF o = 0 THEN its
        ELSE IF o = 1 THEN bl
        ELSE IF o < its THEN d[o]
        ELSE 1]

\* Archives: superblock, a data region of arbitrary bytes, a metadata region.
RemoteObjects ==
    UNION { { RemoteOf(its, 1, d) : d \in [SB_SIZE..(its - 1) -> {0, 1}] } :
            its \in {ArchiveLen - 2, ArchiveLen - 1} }

RemoteSuper(r) == <<r[0], r[1]>>

\* User-metadata that carries the encoded superblock under the key
\* get_metadata looks up.
InstalledMeta(r) ==
    [map |-> [k \in {SB_KEY} |-> base64_encode(RemoteSuper(r))]]

\* User-metadata without a usable superblock: none at all, no superblock
\* key, a value that is not valid text, a value of the wrong length.
BadMetas(r) ==
    { [map |-> <<>>],
      [map |-> [k \in {"other"} |-> <<1>>]],
      [map |-> [k \in {SB_KEY} |-> <<RADIX, 0, 0, 0>>]],
      [map |-> [k \in {SB_KEY} |-> base64_encode(<<r[0]>>)]] }

\* A superblock that differs from the object's leading bytes (in block_log).
MismatchMeta(r) ==
    [map |-> [k \in {SB_KEY} |-> base64_encode(SuperBytes(r[0], 3 - r[1]))]]

ForeignMetas(r) == BadMetas(r) \cup {MismatchMeta(r)}

\* The archive the foreign user-metadata is tried on.
ProbeObject == RemoteOf(ArchiveLen - 1, 1, [o \in Offsets |-> 1])

\* One program at a time on every input; two programs at once on one input,
\* reading single bytes of the data region.
MountSets(r, um) ==
    {{1}} \cup (IF r = ProbeObject /\ um = InstalledMeta(r) THEN {Procs} ELSE {})

UserMetas(r) == {InstalledMeta(r)} \cup (IF r = ProbeObject THEN ForeignMetas(r) ELSE {})

\* TransferManager::head_object: the object's user-metadata, as the map of
\* its x-amz-meta- headers (empty when it has none), and its length; or a
\* transport error.
head_object(um, len, ok) ==
    IF ~ok THEN [t |-> "err", kind |-> "Transport"]
    ELSE [t |-> "ok", metadata |-> [some |-> TRUE, map |-> um.map], content_length |-> len]

\* get_metadata without the check of the decoded length.
get_metadata_unsized(um, len, ok) ==
    LET meta == head_object(um, len, ok) IN
    IF meta.t # "ok" THEN [t |-> "err", kind |-> meta.kind]
    ELSE LET m == meta.metadata.map
             encoded == IF SB_KEY \in DOMAIN m THEN m[SB_KEY] ELSE <<>>
             dec == base64_decode(encoded)
         IN  IF ~dec.ok THEN [t |-> "err", kind |-> "NotFound"]
             ELSE [t |-> "ok", kind |-> "none", sb_bin |-> dec.bytes,
                   filesize |-> meta.content_length]

\* Remote::get_metadata
get_metadata(um, len, ok) ==
    LET meta == head_object(um, len, ok) IN
    IF meta.t # "ok" THEN [t |-> "err", kind |-> meta.kind]
    ELSE IF ~meta.metadata.some THEN [t |-> "panic", kind |-> "unwrap"]
    ELSE LET m == meta.metadata.map
             encoded == IF SB_KEY \in DOMAIN m THEN m[SB_KEY] ELSE <<>>
             dec == base64_decode(encoded)
         IN  IF ~dec.ok THEN [t |-> "err", kind |-> "NotFound"]
             ELSE IF Len(dec.bytes) # SB_SIZE THEN [t |-> "err", kind |-> "InvalidData"]
             ELSE [t |-> "ok", kind |-> "none", sb_bin |-> dec.bytes,
                   filesize |-> meta.content_length]

\* Remote::get_range(start, end), end inclusive: the body bytes of
\* [start, min(end, length - 1)], or an error when the range starts behind
\* the object or the transport fails.  The granted stream is [from, to).
get_range(start, end, ok) ==
    IF ~ok THEN [t |-> "err", kind |-> "Transport"]
    ELSE IF start >= ArchiveLen \/ end < start THEN [t |-> "err", kind |-> "OutOfBounds"]
    ELSE [t |-> "ok", from |-> start, to |-> Min({end + 1, ArchiveLen})]

\* ---------------------------------------------------------- chunk_log
\* opt_chunk_size.map(clamp to MAX_CHUNK_SIZE).unwrap_or_default(); the
\* Option is a sequence of length 0 or 1.
chunk_size_of(opt_chunk_size) ==
    IF opt_chunk_size = <<>> THEN 0
    ELSE IF opt_chunk_size[1] > MAX_CHUNK_SIZE THEN MAX_CHUNK_SIZE
    ELSE opt_chunk_size[1]

\* `chunk_size as f32`: the nearest value with F32_MANT significant bits,
\* ties to the even one.
as_f32(x) ==
    IF x < Pow2(F32_MANT) THEN x
    ELSE LET sh == FloorLog2(x) - (F32_MANT - 1)
             q == Shr(x, sh)
             r == x - Shl(q, sh)
             half == Pow2(sh - 1)
             up == IF r > half \/ (r = half /\ q % 2 = 1) THEN 1 ELSE 0
         IN  Shl(q + up, sh)

\* chunk_log of Local::new, from the clamped chunk size and the superblock:
\* (chunk_size as f32).log2().floor() as usize, the logarithm taken as exact
\* on the value the cast made.
ChunkLogOf(chunk_size, block_size, block_log) ==
    IF chunk_size <= block_size THEN block_log ELSE FloorLog2(as_f32(chunk_size))

\* -------------------------------------------------------- the cache file
\* pread of [offset, offset + size): holes read as zero.
FileByte(o) == IF fdata[o] = Hole THEN 0 ELSE fdata[o]
Materialized == { o \in Offsets : fdata[o] # Hole }
NoFile == [o \in Offsets |-> Hole]

NoBoot == [head |-> "none", kind |-> "none", sb_bin |-> <<>>, filesize |-> 0,
           chunk_log |-> 0, meta_start |-> 0, pos |-> 0, to |-> 0,
           nhead |-> 0, nrange |-> 0, rstart |-> 0, rend |-> 0]
NoCtx == [its |-> 0, block_log |-> 0, chunk_log |-> 0, size |-> 0, created |-> FALSE,
          read_at |-> "none", write_at |-> "none"]
NoArg == [remote |-> FALSE, force |-> FALSE, hdmode |-> "LSEEK", chunk_size |-> 0,
          exists |-> FALSE]
NoRd == [offset |-> 0, size |-> 0, buf |-> <<>>, ret |-> "none", nfetch |-> 0,
         again |-> FALSE, prev |-> <<>>, pfetch |-> 0, retry |-> FALSE]
NoFill == [start_offset |-> 0, req_size |-> 0, start |-> 0, end |-> 0, pos |-> 0, to |-> 0,
           res |-> "none", elapsed |-> 0]

NoOpen == [called |-> FALSE, flags |-> 0, ret |-> 0]
NoStat == [called |-> FALSE]
NoInst == [from |-> <<>>, res |-> "none"]
NoChunk == [called |-> FALSE]
NoHandle == [strong |-> 0, owners |-> 0, alive |-> FALSE, aborted |-> FALSE,
             calls |-> 0, last |-> <<>>]
NoArgs == [phase |-> "none"]
NoPage == [called |-> FALSE]

Init ==
    /\ fi = NoOpen
    /\ st = NoStat
    /\ inst = NoInst
    /\ chk = NoChunk
    /\ hnd = NoHandle
    /\ av = NoArgs
    /\ pg = NoPage
    /\ remote \in RemoteObjects
    /\ usermeta \in UserMetas(remote)
    /\ mounts \in MountSets(remote, usermeta)
    /\ fexists = FALSE
    /\ flen = 0
    /\ fdata = NoFile
    /\ lock = NoProc
    /\ pc = [p \in Procs |-> "idle"]
    /\ arg = [p \in Procs |-> NoArg]
    /\ boot = [p \in Procs |-> NoBoot]
    /\ ctx = [p \in Procs |-> NoCtx]
    /\ rd = [p \in Procs |-> NoRd]
    /\ fill = [p \in Procs |-> NoFill]
    /\ bound = [p \in Procs |-> NoCtx]

\* A start that goes to the remote whenever it has one, the path existing or not.
Start_always(p) ==
    /\ pc[p] = "idle"
    /\ p \in mounts
    /\ mounts = Procs => (p = 1 \/ pc[1] # "idle")
    /\ \E rem \in BOOLEAN, f \in BOOLEAN, hm \in Modes, cs \in ChunkSizes :
        /\ rem \/ (~f /\ hm = "ALLZERO" /\ cs = 0)
        /\ mounts = Procs => (rem /\ cs = 0 /\ ~f /\ hm = "LSEEK")
        /\ arg' = [arg EXCEPT ![p] = [remote |-> rem, force |-> f, hdmode |-> hm,
                                      chunk_size |-> cs, exists |-> fexists]]
        /\ pc' = [pc EXCEPT ![p] =
                    IF ~fexists \/ f \/ rem
                    THEN (IF rem THEN "head" ELSE "failed")
                    ELSE "open"]
    /\ UNCHANGED <<chk, hnd, av, pg, st, inst, fi, bound, mounts, remote, usermeta, fexists, flen, fdata, lock, boot, ctx, rd, fill>>

\* ------------------------------------------------------------- Local::new
\* A program starts: the mount/extract/list commands pass a Remote, the
\* Meta command passes None.  path.try_exists() decides the branch.
\* Of two programs on one path the one that starts first is called 1.
Start(p) ==
    /\ pc[p] = "idle"
    /\ p \in mounts
    /\ mounts = Procs => (p = 1 \/ pc[1] # "idle")
    /\ \E rem \in BOOLEAN, f \in BOOLEAN, hm \in Modes, cs \in ChunkSizes :
        /\ rem \/ (~f /\ hm = "ALLZERO" /\ cs = 0)
        /\ mounts = Procs => (rem /\ cs = 0 /\ ~f /\ hm = "LSEEK")
        /\ arg' = [arg EXCEPT ![p] = [remote |-> rem, force |-> f, hdmode |-> hm,
                                      chunk_size |-> cs, exists |-> fexists]]
        /\ pc' = [pc EXCEPT ![p] =
                    IF ~fexists \/ f
                    THEN (IF rem THEN "head" ELSE "failed")
                    ELSE "open"]
    /\ UNCHANGED <<chk, hnd, av, pg, st, inst, fi, bound, mounts, remote, usermeta, fexists, flen, fdata, lock, boot, ctx, rd, fill>>

\* remote.get_metadata().await.expect(..)
BootHead(p) ==
    /\ pc[p] = "head"
    /\ \E ok \in BOOLEAN :
        LET r == get_metadata(usermeta, ArchiveLen, ok) IN
        IF r.t = "ok"
        THEN /\ boot' = [boot EXCEPT ![p] = [NoBoot EXCEPT !.head = "ok",
                                                           !.sb_bin = r.sb_bin,
                                                           !.filesize = r.filesize,
                                                           !.nhead = 1]]
             /\ pc' = [pc EXCEPT ![p] = "create"]
        ELSE /\ boot' = [boot EXCEPT ![p] = [NoBoot EXCEPT !.head = r.t, !.kind = r.kind,
                                                           !.nhead = 1]]
             /\ pc' = [pc EXCEPT ![p] = "failed"]
    /\ UNCHANGED <<chk, hnd, av, pg, st, inst, fi, bound, mounts, remote, usermeta, fexists, flen, fdata, lock, arg, ctx, rd, fill>>

\* OpenOptions .create(true).truncate(force).open(path)
OpenCreate(p) ==
    /\ pc[p] = "create"
    /\ fexists' = TRUE
    /\ IF arg[p].force
       THEN flen' = 0 /\ fdata' = NoFile
       ELSE UNCHANGED <<flen, fdata>>
    /\ pc' = [pc EXCEPT ![p] = "eof"]
    /\ UNCHANGED <<chk, hnd, av, pg, st, inst, fi, bound, mounts, remote, usermeta, lock, arg, boot, ctx, rd, fill>>

\* seek(filesize - 1); write_all(&[0])
WriteEof(p) ==
    /\ pc[p] = "eof"
    /\ fdata' = [fdata EXCEPT ![boot[p].filesize - 1] = 0]
    /\ flen' = Max({flen, boot[p].filesize})
    /\ pc' = [pc EXCEPT ![p] = "sb"]
    /\ UNCHANGED <<chk, hnd, av, pg, st, inst, fi, bound, mounts, remote, usermeta, fexists, lock, arg, boot, ctx, rd, fill>>

\* meta_start left at inode_table_start.
meta_start_raw(sb, chunk_log) == sb_inode_table_start(sb)

\* "align to block size boundary": (meta_start >> chunk_log) << chunk_log
meta_start(sb, chunk_log) == Shl(Shr(sb_inode_table_start(sb), chunk_log), chunk_log)

\* seek(0); write_all(&sb_bin); then chunk_log and meta_start from sb_bin
WriteSuper(p) ==
    /\ pc[p] = "sb"
    /\ LET sb == boot[p].sb_bin
           cl == ChunkLogOf(arg[p].chunk_size, sb_block_size(sb), sb_block_log(sb))
       IN  /\ fdata' = [o \in Offsets |-> IF o < SB_SIZE THEN sb[o + 1] ELSE fdata[o]]
           /\ flen' = Max({flen, SB_SIZE})
           /\ boot' = [boot EXCEPT ![p].chunk_log = cl,
                                   ![p].meta_start = meta_start(sb, cl)]
    /\ pc' = [pc EXCEPT ![p] = "range"]
    /\ UNCHANGED <<chk, hnd, av, pg, st, inst, fi, bound, mounts, remote, usermeta, fexists, lock, arg, ctx, rd, fill>>

\* A bootstrap that downloads the object from its first byte.
BootRange_whole(p) ==
    /\ pc[p] = "range"
    /\ \E ok \in BOOLEAN :
        LET r == get_range(0, boot[p].filesize - 1, ok)
            b == [boot[p] EXCEPT !.nrange = boot[p].nrange + 1,
                                 !.rstart = 0,
                                 !.rend = boot[p].filesize - 1]
        IN
        IF r.t = "ok"
        THEN /\ boot' = [boot EXCEPT ![p] = [b EXCEPT !.pos = r.from, !.to = r.to]]
             /\ pc' = [pc EXCEPT ![p] = "copy"]
        ELSE /\ boot' = [boot EXCEPT ![p] = b]
             /\ pc' = [pc EXCEPT ![p] = "failed"]
    /\ UNCHANGED <<chk, hnd, av, pg, st, inst, fi, bound, mounts, remote, usermeta, fexists, flen, fdata, lock, arg, ctx, rd, fill>>

\* remote.get_range(meta_start, filesize - 1).await.expect(..); seek(meta_start)
BootRange(p) ==
    /\ pc[p] = "range"
    /\ \E ok \in BOOLEAN :
        LET r == get_range(boot[p].meta_start, boot[p].filesize - 1, ok)
            b == [boot[p] EXCEPT !.nrange = boot[p].nrange + 1,
                                 !.rstart = boot[p].meta_start,
                                 !.rend = boot[p].filesize - 1]
        IN
        IF r.t = "ok"
        THEN /\ boot' = [boot EXCEPT ![p] = [b EXCEPT !.pos = r.from, !.to = r.to]]
             /\ pc' = [pc EXCEPT ![p] = "copy"]
        ELSE /\ boot' = [boot EXCEPT ![p] = b]
             /\ pc' = [pc EXCEPT ![p] = "failed"]
    /\ UNCHANGED <<chk, hnd, av, pg, st, inst, fi, bound, mounts, remote, usermeta, fexists, flen, fdata, lock, arg, ctx, rd, fill>>

\* tokio::io::copy(reader, writer) and writer.flush(): the stream reaches the
\* file front to back; a stream or write error panics with a prefix written.
BootCopy(p) ==
    /\ pc[p] = "copy"
    /\ \/ /\ boot[p].pos < boot[p].to
          /\ fdata' = [fdata EXCEPT ![boot[p].pos] = remote[boot[p].pos]]
          /\ flen' = Max({flen, boot[p].pos + 1})
          /\ boot' = [boot EXCEPT ![p].pos = boot[p].pos + 1]
          /\ pc' = pc
       \/ /\ boot[p].pos < boot[p].to
          /\ pc' = [pc EXCEPT ![p] = "failed"]
          /\ UNCHANGED <<flen, fdata, boot>>
       \/ /\ boot[p].pos = boot[p].to
          /\ pc' = [pc EXCEPT ![p] = "open"]
          /\ UNCHANGED <<flen, fdata, boot>>
    /\ UNCHANGED <<chk, hnd, av, pg, st, inst, fi, bound, mounts, remote, usermeta, fexists, lock, arg, ctx, rd, fill>>

\* A seek or write on the freshly opened cache file fails: .expect(..) panics.
BootIoError(p) ==
    /\ pc[p] \in {"create", "eof", "sb"}
    /\ pc' = [pc EXCEPT ![p] = "failed"]
    /\ UNCHANGED <<chk, hnd, av, pg, st, inst, fi, bound, mounts, remote, usermeta, fexists, flen, fdata, lock, arg, boot, ctx, rd, fill>>

\* ------------------------------------------------ Archive::new_from_sparse
\* The superblock the archive library finds in the first bytes of the file.
FileSuper == [i \in 1..SB_SIZE |-> IF i - 1 < flen THEN FileByte(i - 1) ELSE 0]

\* sqfs_super_read leaves the MaybeUninit superblock unwritten when it
\* rejects the file, and its error code is negative, which `ret > 0` lets
\* pass: the fields are then whatever the stack held.
UninitSupers == { SuperBytes(SB_SIZE, 1), SuperBytes(ArchiveLen, 2) }

\* The tables behind inode_table_start load from bytes equal to the archive's.
TablesIntact(its) ==
    /\ flen = ArchiveLen
    /\ \A o \in Offsets : o >= its => fdata[o] = remote[o]

\* sqfs_open_file: the function slots of the file object it returns.
sqfs_open_file == [read_at |-> "stdio_read_at", write_at |-> "stdio_write_at"]

\* An installation that stashes what the read slot holds after the swap.
install_hook_self(file) ==
    [read_at |-> "archive_read_at", write_at |-> "archive_read_at"]

\* read_at.replace(archive_read_at); write_at.replace(the read it replaced)
install_hook(file) ==
    [read_at |-> "archive_read_at", write_at |-> file.read_at]

\* Archive::new_from_sparse, then the rest of Local::new: chunk_log from the
\* superblock read back from the file.  The hook is installed last.
LocalOf(p, sb) ==
    [its |-> sb_inode_table_start(sb),
     block_log |-> sb_block_log(sb),
     chunk_log |-> ChunkLogOf(arg[p].chunk_size, sb_block_size(sb), sb_block_log(sb)),
     size |-> flen,
     created |-> boot[p].sb_bin # <<>>,
     read_at |-> install_hook(sqfs_open_file).read_at,
     write_at |-> install_hook(sqfs_open_file).write_at]

ArchiveOpen(p) ==
    /\ pc[p] = "open"
    /\ \/ \* the superblock is read, the tables load
          /\ SuperValid(FileSuper)
          /\ TablesIntact(sb_inode_table_start(FileSuper))
          /\ ctx' = [ctx EXCEPT ![p] = LocalOf(p, FileSuper)]
          /\ pc' = [pc EXCEPT ![p] = "made"]
       \/ \* tables read from holes or foreign bytes: the loaders' negative
          \* error codes pass `ret > 1`, or no table is consulted
          /\ SuperValid(FileSuper)
          /\ ~TablesIntact(sb_inode_table_start(FileSuper))
          /\ ctx' = [ctx EXCEPT ![p] = LocalOf(p, FileSuper)]
          /\ pc' = [pc EXCEPT ![p] = "made"]
       \/ \* a loader panics on what it read
          /\ SuperValid(FileSuper) => ~TablesIntact(sb_inode_table_start(FileSuper))
          /\ ctx' = ctx
          /\ pc' = [pc EXCEPT ![p] = "failed"]
       \/ \* the superblock was rejected and the uninitialized one is used
          /\ ~SuperValid(FileSuper)
          /\ \E sb \in UninitSupers : ctx' = [ctx EXCEPT ![p] = LocalOf(p, sb)]
          /\ pc' = [pc EXCEPT ![p] = "made"]
    /\ UNCHANGED <<chk, hnd, av, pg, st, inst, fi, bound, mounts, remote, usermeta, fexists, flen, fdata, lock, arg, boot, rd, fill>>

\* A caller that goes on to the archive library without binding.
Bind_skipped(p) ==
    /\ pc[p] = "made"
    /\ arg[p].remote
    /\ pc' = [pc EXCEPT ![p] = "ready"]
    /\ UNCHANGED <<chk, hnd, av, pg, st, inst, fi, bound, mounts, remote, usermeta, fexists, flen, fdata, lock, arg, boot, ctx, rd,
                   fill>>

\* CONTEXT.with(|c| *c.borrow_mut() = Some(local)): the callers that go on to
\* the archive library bind the Local they made (the Meta command does not).
Bind(p) ==
    /\ pc[p] = "made"
    /\ arg[p].remote
    /\ bound' = [bound EXCEPT ![p] = ctx[p]]
    /\ pc' = [pc EXCEPT ![p] = "ready"]
    /\ UNCHANGED <<chk, hnd, av, pg, st, inst, fi, mounts, remote, usermeta, fexists, flen, fdata, lock, arg, boot, ctx, rd, fill>>

\* ------------------------------------------------------- archive_read_at
\* The library's own read_at (stashed in the write_at slot): pread until
\* size bytes are served; end of file before that is OUT_OF_BOUNDS.
original_read_at(offset, size) ==
    IF offset + size > flen
    THEN [ret |-> "SQFS_ERROR_OUT_OF_BOUNDS", buf |-> <<>>]
    ELSE [ret |-> "OK", buf |-> [i \in 1..size |-> FileByte(offset + i - 1)]]

\* ((*base).write_at.unwrap())(base, offset, buffer, size): the call through
\* the slot the hook stashed the read in.  A slot that holds the hook itself
\* recurses until the stack is gone; the write that the slot held at first
\* fails on the read-only descriptor.
stashed_read_at(slot, offset, size) ==
    IF slot = "stdio_read_at" THEN original_read_at(offset, size)
    ELSE IF slot = "archive_read_at" THEN [ret |-> "PANIC", buf |-> <<>>]
    ELSE [ret |-> "SQFS_ERROR_IO", buf |-> <<>>]

is_zero(buf) == \A i \in 1..Len(buf) : buf[i] = 0

\* lseek with SEEK_DATA in place of SEEK_HOLE.
seek_data(offset) ==
    IF offset >= flen THEN -1
    ELSE Min({ h \in offset..(flen - 1) : fdata[h] # Hole } \cup {flen})

\* lseek(fd, offset, SEEK_HOLE): the first hole at or behind offset, the end
\* of file when there is none, ENXIO (-1) when offset is at or behind the end.
seek_hole(offset) ==
    IF offset >= flen THEN -1
    ELSE Min({ h \in offset..(flen - 1) : fdata[h] = Hole } \cup {flen})

\* A check that takes the end of the file itself for out of range.
is_metadata_area_strict(c, offset) ==
    IF offset < c.its THEN "false"
    ELSE IF offset >= c.size THEN "panic"
    ELSE "true"

\* Local::is_metadata_area
is_metadata_area(c, offset) ==
    IF offset < c.its THEN "false"
    ELSE IF offset > c.size THEN "panic"
    ELSE "true"

\* A zero test that looks at the first byte of the buffer only.
classify_firstbyte(hdmode, offset, size, errno_other) ==
    IF hdmode = "ALLZERO"
    THEN LET r == original_read_at(offset, size) IN
         IF r.ret # "OK" THEN [t |-> "ret", ret |-> r.ret]
         ELSE IF r.buf[1] = 0 THEN [t |-> "off", new_offset |-> offset]
         ELSE [t |-> "off", new_offset |-> offset + size]
    ELSE LET h == seek_hole(offset) IN
         IF h < 0
         THEN [t |-> "ret", ret |-> IF errno_other THEN "SQFS_ERROR_IO"
                                    ELSE "SQFS_ERROR_OUT_OF_BOUNDS"]
         ELSE IF errno_other THEN [t |-> "ret", ret |-> "SQFS_ERROR_IO"]
         ELSE [t |-> "off", new_offset |-> h]

\* A classification that does not seek: the range is taken to start in a hole.
classify_noseek(hdmode, offset, size, errno_other) ==
    IF hdmode = "ALLZERO"
    THEN LET r == original_read_at(offset, size) IN
         IF r.ret # "OK" THEN [t |-> "ret", ret |-> r.ret]
         ELSE IF is_zero(r.buf) THEN [t |-> "off", new_offset |-> offset]
         ELSE [t |-> "off", new_offset |-> offset + size]
    ELSE IF errno_other THEN [t |-> "ret", ret |-> "SQFS_ERROR_IO"]
         ELSE [t |-> "off", new_offset |-> offset]

\* The hole classification of archive_read_at: new_offset, or the code returned.
classify(hdmode, offset, size, errno_other) ==
    IF hdmode = "ALLZERO"
    THEN LET r == original_read_at(offset, size) IN
         IF r.ret # "OK" THEN [t |-> "ret", ret |-> r.ret]
         ELSE IF is_zero(r.buf) THEN [t |-> "off", new_offset |-> offset]
         ELSE [t |-> "off", new_offset |-> offset + size]
    ELSE LET h == seek_hole(offset) IN
         IF h < 0
         THEN [t |-> "ret", ret |-> IF errno_other THEN "SQFS_ERROR_IO"
                                    ELSE "SQFS_ERROR_OUT_OF_BOUNDS"]
         ELSE IF errno_other THEN [t |-> "ret", ret |-> "SQFS_ERROR_IO"]
         ELSE [t |-> "off", new_offset |-> h]

\* The window started at the hole itself.
aligned_start_raw(start_offset, chunk_log) == start_offset

\* An end rounded down and left there.
aligned_end_floor(start_offset, req_size, chunk_log) ==
    Shl(Shr(start_offset + req_size, chunk_log), chunk_log)

\* request_remote_data_task: the window asked of the remote.
aligned_start(start_offset, chunk_log) == Shl(Shr(start_offset, chunk_log), chunk_log)
aligned_end(start_offset, req_size, chunk_log) ==
    Shl(Shr(start_offset + req_size, chunk_log), chunk_log) + Pow2(chunk_log)

Done(p, offset, size, r, n) ==
    [rd[p] EXCEPT !.offset = offset, !.size = size, !.buf = r.buf, !.ret = r.ret,
                  !.nfetch = n]

\* archive_read_at(offset, size) up to the point where it returns or asks for
\* a fill.  again: the call repeats the one that has just returned success;
\* retry: it follows a call whose fill failed with part of its range written.
Hook(p, offset, size, errno_other, again) ==
    LET meta == IF bound[p] = NoCtx THEN "panic"   \* local.as_ref().unwrap()
                ELSE is_metadata_area(bound[p], offset)
        c == classify(arg[p].hdmode, offset, size, errno_other)
        r0 == [NoRd EXCEPT !.again = again,
                           !.prev = IF again THEN rd[p].buf ELSE <<>>,
                           !.pfetch = IF again THEN rd[p].nfetch ELSE 0,
                           !.retry = /\ pc[p] = "returned"
                                     /\ fill[p].res \notin {"none", "Ok"}
                                     /\ fill[p].pos > fill[p].start]
    IN
    /\ errno_other => (meta = "false" /\ arg[p].hdmode = "LSEEK")
    /\ IF meta = "panic"
       THEN /\ pc' = [pc EXCEPT ![p] = "failed"]
            /\ rd' = [rd EXCEPT ![p] = [r0 EXCEPT !.offset = offset, !.size = size,
                                                  !.ret = "PANIC"]]
            /\ fill' = [fill EXCEPT ![p] = NoFill]
       ELSE IF meta = "true"
       THEN LET r == stashed_read_at(ctx[p].write_at, offset, size) IN
            /\ pc' = [pc EXCEPT ![p] = "returned"]
            /\ rd' = [rd EXCEPT ![p] = [r0 EXCEPT !.offset = offset, !.size = size,
                                                  !.buf = r.buf, !.ret = r.ret]]
            /\ fill' = [fill EXCEPT ![p] = NoFill]
       ELSE IF c.t = "ret"
       THEN /\ pc' = [pc EXCEPT ![p] = "returned"]
            /\ rd' = [rd EXCEPT ![p] = [r0 EXCEPT !.offset = offset, !.size = size,
                                                  !.ret = c.ret]]
            /\ fill' = [fill EXCEPT ![p] = NoFill]
       ELSE IF c.new_offset < offset + size
       THEN LET start_offset == c.new_offset
                req_size == offset + size - c.new_offset
            IN  IF ~arg[p].remote
                THEN \* request_remote_data_task without a Remote is Ok(())
                     LET r == stashed_read_at(ctx[p].write_at, offset, size) IN
                     /\ pc' = [pc EXCEPT ![p] = "returned"]
                     /\ rd' = [rd EXCEPT ![p] = [r0 EXCEPT !.offset = offset, !.size = size,
                                                           !.buf = r.buf, !.ret = r.ret]]
                     /\ fill' = [fill EXCEPT ![p] = NoFill]
                ELSE /\ pc' = [pc EXCEPT ![p] = "fill_get"]
                     /\ rd' = [rd EXCEPT ![p] = [r0 EXCEPT !.offset = offset, !.size = size]]
                     /\ fill' = [fill EXCEPT ![p] =
                                  [NoFill EXCEPT
                                     !.start_offset = start_offset,
                                     !.req_size = req_size,
                                     !.start = aligned_start(start_offset,
                                                             bound[p].chunk_log),
                                     !.end = aligned_end(start_offset, req_size,
                                                         bound[p].chunk_log)]]
       ELSE LET r == stashed_read_at(ctx[p].write_at, offset, size) IN
            /\ pc' = [pc EXCEPT ![p] = "returned"]
            /\ rd' = [rd EXCEPT ![p] = [r0 EXCEPT !.offset = offset, !.size = size,
                                                  !.buf = r.buf, !.ret = r.ret]]
            /\ fill' = [fill EXCEPT ![p] = NoFill]

\* The library's call through the read_at slot of its file object.
read_at(p, offset, size, errno_other, again) ==
    IF ctx[p].read_at = "archive_read_at"
    THEN Hook(p, offset, size, errno_other, again)
    ELSE /\ ~errno_other
         /\ pc' = [pc EXCEPT ![p] = "returned"]
         /\ rd' = [rd EXCEPT ![p] = Done(p, offset, size,
                                         original_read_at(offset, size), 0)]
         /\ fill' = [fill EXCEPT ![p] = NoFill]

\* The archive library issues a positioned read.
ReadAt(p) ==
    /\ pc[p] = "ready"
    /\ arg[p].remote
    /\ \E offset \in 0..(ArchiveLen + 1), size \in 1..MaxRead, errno_other \in BOOLEAN :
        /\ mounts = Procs => (offset \in SB_SIZE..(ctx[p].its - 1) /\ size = 1 /\ ~errno_other)
        /\ read_at(p, offset, size, errno_other, FALSE)
    /\ UNCHANGED <<chk, hnd, av, pg, st, inst, fi, bound, mounts, remote, usermeta, fexists, flen, fdata, lock, arg, boot, ctx>>

\* The same read is issued again right after it returned success.
ReadRepeat(p) ==
    /\ pc[p] = "returned"
    /\ rd[p].ret = "OK"
    /\ mounts = {p}
    /\ read_at(p, rd[p].offset, rd[p].size, FALSE, TRUE)
    /\ UNCHANGED <<chk, hnd, av, pg, st, inst, fi, bound, mounts, remote, usermeta, fexists, flen, fdata, lock, arg, boot, ctx>>

\* The caller retries the read whose fill failed.
ReadRetry(p) ==
    /\ pc[p] = "returned"
    /\ rd[p].ret = "SQFS_ERROR_IO"
    /\ fill[p].res \notin {"none", "Ok"}
    /\ mounts = {p}
    /\ read_at(p, rd[p].offset, rd[p].size, FALSE, FALSE)
    /\ UNCHANGED <<chk, hnd, av, pg, st, inst, fi, bound, mounts, remote, usermeta, fexists, flen, fdata, lock, arg, boot, ctx>>

\* The archive library goes on with what the read returned.
Return(p) ==
    /\ pc[p] = "returned"
    /\ pc' = [pc EXCEPT ![p] = "ready"]
    /\ rd' = [rd EXCEPT ![p] = NoRd]
    /\ fill' = [fill EXCEPT ![p] = NoFill]
    /\ UNCHANGED <<chk, hnd, av, pg, st, inst, fi, bound, mounts, remote, usermeta, fexists, flen, fdata, lock, arg, boot, ctx>>

\* A fill error that is dropped: the read goes on as after a fill.
FillErr_ignored(p, kind) ==
    /\ fill' = [fill EXCEPT ![p].res = kind]
    /\ rd' = rd
    /\ pc' = [pc EXCEPT ![p] = "reread"]

\* A fill that ended in Err: archive_read_at returns SQFS_ERROR_IO.
FillErr(p, kind) ==
    /\ fill' = [fill EXCEPT ![p].res = kind]
    /\ rd' = [rd EXCEPT ![p].ret = "SQFS_ERROR_IO"]
    /\ pc' = [pc EXCEPT ![p] = "returned"]

\* A worker that opens the cache file with truncate(true).
FillGet_truncate(p) ==
    /\ pc[p] = "fill_get"
    /\ \E ok \in BOOLEAN, opened \in BOOLEAN :
        LET r == get_range(fill[p].start, fill[p].end - 1, ok) IN
        IF r.t = "ok" /\ opened
        THEN /\ fill' = [fill EXCEPT ![p].pos = r.from, ![p].to = r.to]
             /\ rd' = [rd EXCEPT ![p].nfetch = rd[p].nfetch + 1]
             /\ pc' = [pc EXCEPT ![p] = "fill_lock"]
             /\ flen' = 0
             /\ fdata' = NoFile
        ELSE /\ fill' = [fill EXCEPT ![p].res = IF r.t = "ok" THEN "Io" ELSE r.kind]
             /\ rd' = [rd EXCEPT ![p].ret = "SQFS_ERROR_IO", ![p].nfetch = rd[p].nfetch + 1]
             /\ pc' = [pc EXCEPT ![p] = "returned"]
             /\ UNCHANGED <<flen, fdata>>
    /\ UNCHANGED <<chk, hnd, av, pg, st, inst, fi, bound, mounts, remote, usermeta, fexists, lock, arg, boot, ctx>>

\* The worker: get_range(aligned_start, aligned_end - 1), open the cache
\* file for writing, seek(aligned_start); each of them can fail.
FillGet(p) ==
    /\ pc[p] = "fill_get"
    /\ \E ok \in BOOLEAN, opened \in BOOLEAN :
        LET r == get_range(fill[p].start, fill[p].end - 1, ok) IN
        IF r.t = "ok" /\ opened
        THEN /\ fill' = [fill EXCEPT ![p].pos = r.from, ![p].to = r.to]
             /\ rd' = [rd EXCEPT ![p].nfetch = rd[p].nfetch + 1]
             /\ pc' = [pc EXCEPT ![p] = "fill_lock"]
        ELSE /\ fill' = [fill EXCEPT ![p].res = IF r.t = "ok" THEN "Io" ELSE r.kind]
             /\ rd' = [rd EXCEPT ![p].ret = "SQFS_ERROR_IO", ![p].nfetch = rd[p].nfetch + 1]
             /\ pc' = [pc EXCEPT ![p] = "returned"]
    /\ UNCHANGED <<chk, hnd, av, pg, st, inst, fi, bound, mounts, remote, usermeta, fexists, flen, fdata, lock, arg, boot, ctx>>

\* A lock that is taken without regard to who holds it.
FillLock_unchecked(p) ==
    /\ pc[p] = "fill_lock"
    /\ lock' = p
    /\ pc' = [pc EXCEPT ![p] = "fill_copy"]
    /\ UNCHANGED <<rd, fill>>
    /\ UNCHANGED <<chk, hnd, av, pg, st, inst, fi, bound, mounts, remote, usermeta, fexists, flen, fdata, arg, boot, ctx>>

\* A poll without the deadline: Pending for as long as the lock is held.
FillLock_nodeadline(p) ==
    /\ pc[p] = "fill_lock"
    /\ \/ /\ lock = NoProc
          /\ lock' = p
          /\ pc' = [pc EXCEPT ![p] = "fill_copy"]
          /\ UNCHANGED <<rd, fill>>
       \/ /\ lock = NoProc
          /\ FillErr(p, "Other")
          /\ lock' = lock
       \/ /\ lock # NoProc
          /\ fill[p].elapsed <= LOCK_TIMEOUT
          /\ fill' = [fill EXCEPT ![p].elapsed = fill[p].elapsed + 1]
          /\ UNCHANGED <<pc, rd, lock>>
    /\ UNCHANGED <<chk, hnd, av, pg, st, inst, fi, bound, mounts, remote, usermeta, fexists, flen, fdata, arg, boot, ctx>>

\* FileLock::poll: try_lock_exclusive succeeds; fails with an error other
\* than WouldBlock; or the lock is held (WouldBlock) and the poll returns
\* TimedOut once start.elapsed() >= timeout, Pending (woken again at once,
\* the clock moving on) before that.
FillLock(p) ==
    /\ pc[p] = "fill_lock"
    /\ \/ /\ lock = NoProc
          /\ lock' = p
          /\ pc' = [pc EXCEPT ![p] = "fill_copy"]
          /\ UNCHANGED <<rd, fill>>
       \/ /\ lock = NoProc
          /\ FillErr(p, "Other")
          /\ lock' = lock
       \/ /\ lock # NoProc
          /\ fill[p].elapsed >= LOCK_TIMEOUT
          /\ FillErr(p, "TimedOut")
          /\ lock' = lock
       \/ /\ lock # NoProc
          /\ fill[p].elapsed < LOCK_TIMEOUT
          /\ fill' = [fill EXCEPT ![p].elapsed = fill[p].elapsed + 1]
          /\ UNCHANGED <<pc, rd, lock>>
    /\ UNCHANGED <<chk, hnd, av, pg, st, inst, fi, bound, mounts, remote, usermeta, fexists, flen, fdata, arg, boot, ctx>>

\* A copy whose error paths leave the lock held.
FillCopy_keeplock(p) ==
    /\ pc[p] = "fill_copy"
    /\ \/ /\ fill[p].pos < fill[p].to
          /\ fdata' = [fdata EXCEPT ![fill[p].pos] = remote[fill[p].pos]]
          /\ flen' = Max({flen, fill[p].pos + 1})
          /\ fill' = [fill EXCEPT ![p].pos = fill[p].pos + 1]
          /\ UNCHANGED <<pc, rd, lock>>
       \/ /\ fill[p].pos <= fill[p].to
          /\ FillErr(p, IF fill[p].pos < fill[p].to THEN "Transport" ELSE "Io")
          /\ UNCHANGED <<lock, flen, fdata>>
       \/ /\ fill[p].pos = fill[p].to
          /\ fill' = [fill EXCEPT ![p].res = "Ok"]
          /\ pc' = [pc EXCEPT ![p] = "reread"]
          /\ lock' = NoProc
          /\ UNCHANGED <<flen, fdata, rd>>
    /\ UNCHANGED <<chk, hnd, av, pg, st, inst, fi, bound, mounts, remote, usermeta, fexists, arg, boot, ctx>>

\* A copy the caller does not wait for: the read goes on while it runs.
FillCopy_detached(p) ==
    /\ pc[p] = "fill_copy"
    /\ \/ /\ fill[p].pos < fill[p].to
          /\ fdata' = [fdata EXCEPT ![fill[p].pos] = remote[fill[p].pos]]
          /\ flen' = Max({flen, fill[p].pos + 1})
          /\ fill' = [fill EXCEPT ![p].pos = fill[p].pos + 1]
          /\ UNCHANGED <<pc, rd, lock>>
       \/ /\ fill[p].pos < fill[p].to
          /\ pc' = [pc EXCEPT ![p] = "reread"]
          /\ UNCHANGED <<fill, rd, lock, flen, fdata>>
       \/ /\ fill[p].pos = fill[p].to
          /\ fill' = [fill EXCEPT ![p].res = "Ok"]
          /\ pc' = [pc EXCEPT ![p] = "reread"]
          /\ lock' = NoProc
          /\ UNCHANGED <<flen, fdata, rd>>
    /\ UNCHANGED <<chk, hnd, av, pg, st, inst, fi, bound, mounts, remote, usermeta, fexists, arg, boot, ctx>>

\* A copy that punches out what it wrote when the stream fails.
FillCopy_rollback(p) ==
    /\ pc[p] = "fill_copy"
    /\ \/ /\ fill[p].pos < fill[p].to
          /\ fdata' = [fdata EXCEPT ![fill[p].pos] = remote[fill[p].pos]]
          /\ flen' = Max({flen, fill[p].pos + 1})
          /\ fill' = [fill EXCEPT ![p].pos = fill[p].pos + 1]
          /\ UNCHANGED <<pc, rd, lock>>
       \/ /\ fill[p].pos < fill[p].to
          /\ FillErr(p, "Transport")
          /\ lock' = NoProc
          /\ fdata' = [o \in Offsets |->
                        IF o >= fill[p].start /\ o < fill[p].pos THEN Hole ELSE fdata[o]]
          /\ flen' = flen
       \/ /\ fill[p].pos = fill[p].to
          /\ FillErr(p, "Io")
          /\ lock' = NoProc
          /\ UNCHANGED <<flen, fdata>>
       \/ /\ fill[p].pos = fill[p].to
          /\ fill' = [fill EXCEPT ![p].res = "Ok"]
          /\ pc' = [pc EXCEPT ![p] = "reread"]
          /\ lock' = NoProc
          /\ UNCHANGED <<flen, fdata, rd>>
    /\ UNCHANGED <<chk, hnd, av, pg, st, inst, fi, bound, mounts, remote, usermeta, fexists, arg, boot, ctx>>

\* tokio::io::copy into the cache file and flush, under the lock: the stream
\* breaks part-way, the flush fails behind the last byte, or both succeed.
\* The file (and with it the lock) is dropped on every way out.
FillCopy(p) ==
    /\ pc[p] = "fill_copy"
    /\ \/ /\ fill[p].pos < fill[p].to
          /\ fdata' = [fdata EXCEPT ![fill[p].pos] = remote[fill[p].pos]]
          /\ flen' = Max({flen, fill[p].pos + 1})
          /\ fill' = [fill EXCEPT ![p].pos = fill[p].pos + 1]
          /\ UNCHANGED <<pc, rd, lock>>
       \/ /\ fill[p].pos < fill[p].to
          /\ FillErr(p, "Transport")
          /\ lock' = NoProc
          /\ UNCHANGED <<flen, fdata>>
       \/ /\ fill[p].pos = fill[p].to
          /\ FillErr(p, "Io")
          /\ lock' = NoProc
          /\ UNCHANGED <<flen, fdata>>
       \/ /\ fill[p].pos = fill[p].to
          /\ fill' = [fill EXCEPT ![p].res = "Ok"]
          /\ pc' = [pc EXCEPT ![p] = "reread"]
          /\ lock' = NoProc
          /\ UNCHANGED <<flen, fdata, rd>>
    /\ UNCHANGED <<chk, hnd, av, pg, st, inst, fi, bound, mounts, remote, usermeta, fexists, arg, boot, ctx>>

\* After the join: "it's actually read data".
ReadAgain(p) ==
    /\ pc[p] = "reread"
    /\ rd' = [rd EXCEPT ![p] = Done(p, rd[p].offset, rd[p].size,
                                     stashed_read_at(ctx[p].write_at, rd[p].offset, rd[p].size),
                                     rd[p].nfetch)]
    /\ pc' = [pc EXCEPT ![p] = "returned"]
    /\ UNCHANGED <<chk, hnd, av, pg, st, inst, fi, bound, mounts, remote, usermeta, fexists, flen, fdata, lock, arg, boot, ctx, fill>>

\* The lambda handler returns: the process lives on and serves the next
\* request with a new Local::new (force = false); nothing unbinds CONTEXT.
HandlerReturn(p) ==
    /\ pc[p] = "ready"
    /\ mounts = {p}
    /\ ~arg[p].force
    /\ pc' = [pc EXCEPT ![p] = "idle"]
    /\ arg' = [arg EXCEPT ![p] = NoArg]
    /\ boot' = [boot EXCEPT ![p] = NoBoot]
    /\ ctx' = [ctx EXCEPT ![p] = NoCtx]
    /\ rd' = [rd EXCEPT ![p] = NoRd]
    /\ fill' = [fill EXCEPT ![p] = NoFill]
    /\ UNCHANGED <<chk, hnd, av, pg, st, inst, fi, bound, mounts, remote, usermeta, fexists, flen, fdata, lock>>

\* The program ends (unmount, end of the command, or after a panic), and
\* its thread's CONTEXT with it.
Exit(p) ==
    /\ pc[p] \in {"made", "ready", "failed"}
    /\ mounts = {p}
    /\ pc' = [pc EXCEPT ![p] = "idle"]
    /\ arg' = [arg EXCEPT ![p] = NoArg]
    /\ boot' = [boot EXCEPT ![p] = NoBoot]
    /\ ctx' = [ctx EXCEPT ![p] = NoCtx]
    /\ rd' = [rd EXCEPT ![p] = NoRd]
    /\ fill' = [fill EXCEPT ![p] = NoFill]
    /\ bound' = [bound EXCEPT ![p] = NoCtx]
    /\ UNCHANGED <<chk, hnd, av, pg, st, inst, fi, mounts, remote, usermeta, fexists, flen, fdata, lock>>

Next ==
    \E p \in Procs :
        \/ Start(p)
        \/ BootHead(p)
        \/ OpenCreate(p)
        \/ WriteEof(p)
        \/ WriteSuper(p)
        \/ BootRange(p)
        \/ BootCopy(p)
        \/ BootIoError(p)
        \/ ArchiveOpen(p)
        \/ Bind(p)
        \/ ReadAt(p)
        \/ ReadRepeat(p)
        \/ ReadRetry(p)
        \/ Return(p)
        \/ FillGet(p)
        \/ FillLock(p)
        \/ FillCopy(p)
        \/ ReadAgain(p)
        \/ HandlerReturn(p)
        \/ Exit(p)

Spec == Init /\ [][Next]_vars

\* ------------------------------------------------------------- ops_open
\* a & b on non-negative integers.
RECURSIVE BitAnd(_, _)
BitAnd(a, b) ==
    IF a = 0 \/ b = 0 THEN 0
    ELSE (a % 2) * (b % 2) + 2 * BitAnd(a \div 2, b \div 2)

\* An open that turns away write-only requests alone.
ops_open_wronly(flags) ==
    IF BitAnd(flags, 1) # O_RDONLY THEN -EACCES ELSE 0

\* ops_open: (flags & O_ACCMODE) != O_RDONLY is -EACCES, else 0.
ops_open(flags) ==
    IF BitAnd(flags, O_ACCMODE) # O_RDONLY THEN -EACCES ELSE 0

\* The mount serves an open request; ops_open reads the flags and nothing else.
OpsOpen ==
    /\ \E flags \in 0..MaxFlags :
        fi' = [called |-> TRUE, flags |-> flags, ret |-> ops_open(flags)]
    /\ UNCHANGED <<chk, hnd, av, pg, st, inst, bound, mounts, remote, usermeta, fexists, flen, fdata, lock, pc, arg,
                   boot, ctx, rd, fill>>

\* Open requests on their own: a mount that serves nothing else.
OpenInit ==
    /\ Init
    /\ remote = ProbeObject
    /\ usermeta = InstalledMeta(remote)
    /\ mounts = {1}

OpenNext == OpsOpen

OpenSpec == OpenInit /\ [][OpenNext]_vars

\* --------------------------------------------------------- Archive::stat
\* a | b on non-negative integers.
RECURSIVE BitOr(_, _)
BitOr(a, b) ==
    IF a = 0 THEN b
    ELSE IF b = 0 THEN a
    ELSE (IF a % 2 = 1 \/ b % 2 = 1 THEN 1 ELSE 0) + 2 * BitOr(a \div 2, b \div 2)

\* The inode types of the archive library (base.type_).
FileTypes == {"FILE", "EXT_FILE"}
DirTypes == {"DIR", "EXT_DIR"}
SlinkTypes == {"SLINK", "EXT_SLINK"}
FifoTypes == {"FIFO", "EXT_FIFO"}
SocketTypes == {"SOCKET", "EXT_SOCKET"}
BdevTypes == {"BDEV", "EXT_BDEV"}
CdevTypes == {"CDEV", "EXT_CDEV"}
InodeTypes ==
    FileTypes \cup DirTypes \cup SlinkTypes \cup FifoTypes \cup SocketTypes \cup BdevTypes
        \cup CdevTypes

\* The match arms with every special file taken for a fifo.
stat_type_bits_fifo(type) ==
    IF type \in FileTypes THEN S_IFREG
    ELSE IF type \in DirTypes THEN S_IFDIR
    ELSE IF type \in SlinkTypes THEN S_IFLNK
    ELSE S_IFIFO

\* The S_IF* bits the match arm of the inode's type ors into st_mode.
stat_type_bits(type) ==
    IF type \in FileTypes THEN S_IFREG
    ELSE IF type \in DirTypes THEN S_IFDIR
    ELSE IF type \in FifoTypes THEN S_IFIFO
    ELSE IF type \in SocketTypes THEN S_IFSOCK
    ELSE IF type \in BdevTypes THEN S_IFBLK
    ELSE IF type \in CdevTypes THEN S_IFCHR
    ELSE S_IFLNK

\* st_nlink: 1 for the basic file, the nlink field of the inode otherwise.
stat_nlink(inode) == IF inode.type = "FILE" THEN 1 ELSE inode.nlink

\* st_size: the file size, the directory size, the target size; else 0.
stat_size(inode) ==
    IF inode.type \in FileTypes \cup DirTypes \cup SlinkTypes THEN inode.size ELSE 0

\* st_rdev: devno of the device inodes.
stat_rdev(inode) == IF inode.type \in BdevTypes \cup CdevTypes THEN inode.devno ELSE 0

\* st_blocks, in u64: ((size - 1) >> 9) + 1, or 0 for size 0, for the basic
\* file; (size + sparse - 511) >> 9 for the extended file, where a sum below
\* 511 panics in a build with overflow checks and wraps in one without.
stat_blocks(inode, overflow_checks) ==
    IF inode.type = "FILE"
    THEN [t |-> "ok", v |-> IF inode.size = 0 THEN 0 ELSE Shr(inode.size - 1, 9) + 1]
    ELSE IF inode.type = "EXT_FILE"
    THEN IF inode.size + inode.sparse >= 511
         THEN [t |-> "ok", v |-> Shr(inode.size + inode.sparse - 511, 9)]
         ELSE IF overflow_checks THEN [t |-> "panic", v |-> 0]
         ELSE [t |-> "ok",
               v |-> Shr((inode.size + inode.sparse - 511) % Pow2(U64_BITS), 9)]
    ELSE [t |-> "ok", v |-> 0]

\* Archive::stat: the zeroed stat64 with the fields the function assigns.
stat(inode, overflow_checks) ==
    LET blocks == stat_blocks(inode, overflow_checks) IN
    IF inode.type \notin InodeTypes \/ blocks.t = "panic" THEN [t |-> "panic"]
    ELSE [t |-> "ok",
          st_dev |-> 0,
          st_ino |-> inode.inode_number,
          st_nlink |-> stat_nlink(inode),
          st_mode |-> BitOr(inode.mode, stat_type_bits(inode.type)),
          st_rdev |-> stat_rdev(inode),
          st_size |-> stat_size(inode),
          st_blksize |-> 0,
          st_blocks |-> blocks.v,
          st_atime |-> 0,
          st_mtime |-> inode.mod_time,
          st_ctime |-> 0]

\* The file-type bits of an inode type, as stat(2) defines them and as the
\* archive library keeps them in base.mode (s_isreg tests them there).
FileTypeBits ==
    [t \in InodeTypes |->
        CASE t \in {"FILE", "EXT_FILE"} -> S_IFREG
          [] t \in {"DIR", "EXT_DIR"} -> S_IFDIR
          [] t \in {"SLINK", "EXT_SLINK"} -> S_IFLNK
          [] t \in {"FIFO", "EXT_FIFO"} -> S_IFIFO
          [] t \in {"SOCKET", "EXT_SOCKET"} -> S_IFSOCK
          [] t \in {"BDEV", "EXT_BDEV"} -> S_IFBLK
          [] t \in {"CDEV", "EXT_CDEV"} -> S_IFCHR]

\* Sizes around the sector boundaries.
Sizes == { k * 512 + d : k \in 0..MaxSectors, d \in {0, 1, 511} }

\* The inodes the archive library hands out: base.mode carries the
\* permission bits and the type bits of the inode's type; link counts are
\* at least 1; only files, directories and symlinks have a size, only
\* the extended file a sparse count (at most its size), only devices a devno.
Inodes ==
    { [type |-> t, mode |-> BitOr(perm, FileTypeBits[t]), nlink |-> n, size |-> sz,
       sparse |-> sp, devno |-> dv, mod_time |-> mt, inode_number |-> 1] :
        t \in InodeTypes, perm \in {420, 2541}, n \in 1..MaxNlink, sz \in Sizes,
        sp \in {0, 512}, dv \in {0, 259}, mt \in 0..MaxTime }

WellFormed(inode) ==
    /\ inode.type \notin FileTypes \cup DirTypes \cup SlinkTypes => inode.size = 0
    /\ inode.sparse # 0 => (inode.type = "EXT_FILE" /\ inode.sparse <= inode.size)
    /\ inode.devno # 0 => inode.type \in BdevTypes \cup CdevTypes

\* A caller (getattr, readdir, the listing) has Archive::stat make the stat
\* of an inode; the function keeps nothing from one call to the next.
Stat ==
    /\ ~st.called
    /\ \E inode \in Inodes, overflow_checks \in BOOLEAN :
        /\ WellFormed(inode)
        /\ st' = [called |-> TRUE, inode |-> inode, out |-> stat(inode, overflow_checks)]
    /\ UNCHANGED <<chk, hnd, av, pg, inst, fi, bound, mounts, remote, usermeta, fexists, flen, fdata, lock, pc, arg,
                   boot, ctx, rd, fill>>

StatInit ==
    /\ Init
    /\ remote = ProbeObject
    /\ usermeta = InstalledMeta(remote)
    /\ mounts = {1}

StatNext == Stat

StatSpec == StatInit /\ [][StatNext]_vars

\* ---------------------------------------------------------------- install
\* TransferManager::upload_object: the object's body is the file uploaded and
\* its user-metadata the map given, keys as given; or the upload fails.
upload_object(body, metadata, ok) ==
    IF ~ok THEN [t |-> "err"]
    ELSE [t |-> "ok", body |-> body, usermeta |-> [map |-> metadata]]

\* Remote::intall_archivefs: read_exact of the first size_of::<sqfs_super_t>()
\* bytes, base64::encode, upload with the one metadata entry.
intall_archivefs(from, ok) ==
    LET buf == [i \in 1..SB_SIZE |-> from[i - 1]]
        encoded == base64_encode(buf)
        metadata == [k \in {INSTALL_KEY} |-> encoded]
    IN  upload_object(from, metadata, ok)

\* The install command on the local archive inst.from.
Install ==
    /\ inst.res = "none"
    /\ \E ok \in BOOLEAN :
        LET r == intall_archivefs(inst.from, ok) IN
        IF r.t = "ok"
        THEN /\ remote' = r.body
             /\ usermeta' = r.usermeta
             /\ inst' = [inst EXCEPT !.res = "Ok"]
        ELSE /\ inst' = [inst EXCEPT !.res = "Err"]
             /\ UNCHANGED <<remote, usermeta>>
    /\ UNCHANGED <<chk, hnd, av, pg, st, fi, bound, mounts, fexists, flen, fdata, lock, pc, arg, boot, ctx, rd, fill>>

\* No object yet under the key; a local archive to install; then programs
\* that start on the installed object and ask for its head.
InstallInit ==
    /\ inst \in { [from |-> r, res |-> "none"] : r \in RemoteObjects }
    /\ remote = [o \in Offsets |-> 0]
    /\ usermeta = [map |-> <<>>]
    /\ mounts = {1}
    /\ fi = NoOpen
    /\ st = NoStat
    /\ chk = NoChunk
    /\ hnd = NoHandle
    /\ av = NoArgs
    /\ pg = NoPage
    /\ fexists = FALSE
    /\ flen = 0
    /\ fdata = NoFile
    /\ lock = NoProc
    /\ pc = [p \in Procs |-> "idle"]
    /\ arg = [p \in Procs |-> NoArg]
    /\ boot = [p \in Procs |-> NoBoot]
    /\ ctx = [p \in Procs |-> NoCtx]
    /\ rd = [p \in Procs |-> NoRd]
    /\ fill = [p \in Procs |-> NoFill]
    /\ bound = [p \in Procs |-> NoCtx]

InstallNext ==
    \/ Install
    \/ \E p \in Procs :
          /\ inst.res = "Ok"
          /\ Start(p) \/ BootHead(p) \/ Exit(p)

InstallSpec == InstallInit /\ [][InstallNext]_vars

\* ------------------------------------------------- chunk_log of Local::new
OptChunkSizes == {<<>>} \cup { <<x>> : x \in 0..MaxChunk }

\* Local::new on an absent path, seen for its chunk_log only: once from the
\* superblock of the user-metadata (bootstrap), once from the superblock the
\* archive read back from the file, which holds the same bytes.
ChunkLog ==
    /\ ~chk.called
    /\ \E opt_chunk_size \in OptChunkSizes, block_log \in BlockLogs :
        LET chunk_size == chunk_size_of(opt_chunk_size) IN
        chk' = [called |-> TRUE,
                opt_chunk_size |-> opt_chunk_size,
                block_log |-> block_log,
                chunk_size |-> chunk_size,
                boot_log |-> ChunkLogOf(chunk_size, Pow2(block_log), block_log),
                chunk_log |-> ChunkLogOf(chunk_size, Pow2(block_log), block_log)]
    /\ UNCHANGED <<hnd, av, pg, st, inst, fi, bound, mounts, remote, usermeta, fexists, flen,
                   fdata, lock, pc, arg, boot, ctx, rd, fill>>

ChunkInit ==
    /\ Init
    /\ remote = ProbeObject
    /\ usermeta = InstalledMeta(remote)
    /\ mounts = {1}

ChunkNext == ChunkLog

ChunkSpec == ChunkInit /\ [][ChunkNext]_vars

\* ------------------------------------------------ filter_result (listing)
\* Paths of the archive: strings over two characters.
Names == { <<1>>, <<2>>, <<1, 1>>, <<1, 2>> }

\* What file_list returns: each path of the archive once.
EntryLists ==
    UNION { { v \in [1..n -> Names] : \A i, j \in 1..n : v[i] = v[j] => i = j } :
            n \in 0..MaxEntries }

FilterKeys == { <<>>, <<1>>, <<2>>, <<1, 2>> }

\* A continuation token: none, the path of an entry, or a path of no entry.
LastEnds == {<<>>} \cup { <<n>> : n \in Names \cup {<<2, 2>>} }

\* str::starts_with
starts_with(x, prefix) ==
    /\ Len(prefix) <= Len(x)
    /\ SubSeq(x, 1, Len(prefix)) = prefix

\* v.iter().position(|r| r.0 == name): 0 when there is none.
position(v, name) ==
    IF \E i \in 1..Len(v) : v[i] = name
    THEN Min({ i \in 1..Len(v) : v[i] = name })
    ELSE 0

\* filter_result: the page left in v and the key returned.
filter_result(v, filter_key, max_count, last_end) ==
    IF last_end # <<>> /\ position(v, last_end[1]) = 0
    THEN [t |-> "ok", v |-> <<>>, key |-> <<>>]
    ELSE LET drained == IF last_end = <<>> THEN v
                        ELSE SubSeq(v, position(v, last_end[1]) + 1, Len(v))
             retained == SelectSeq(drained, LAMBDA x : starts_with(x, filter_key))
         IN  IF Len(retained) <= max_count
             THEN [t |-> "ok", v |-> retained, key |-> <<>>]
             ELSE IF max_count = 0
             THEN [t |-> "panic", v |-> <<>>, key |-> <<>>]   \* v.last().unwrap()
             ELSE [t |-> "ok", v |-> SubSeq(retained, 1, max_count),
                   key |-> <<retained[max_count]>>]

\* list_objects_v2_handler, for what it does with filter_result: the page
\* and the token of the result; got collects the pages of one listing.
Page(v, filter_key, max_count, last_end, first, got) ==
    LET r == filter_result(v, filter_key, max_count, last_end) IN
    [phase |-> IF r.t = "panic" THEN "panic"
               ELSE IF r.key = <<>> THEN "done" ELSE "more",
     v |-> v, filter_key |-> filter_key, max_count |-> max_count,
     first |-> first, last_end |-> last_end,
     page |-> r.v, key |-> r.key, got |-> got \o r.v]

\* A listing request.
ListRequest ==
    /\ pg = NoPage
    /\ \E v \in EntryLists, filter_key \in FilterKeys, max_count \in 0..MaxKeys,
          last_end \in LastEnds :
          pg' = Page(v, filter_key, max_count, last_end, last_end, <<>>)
    /\ UNCHANGED <<chk, hnd, av, st, inst, fi, bound, mounts, remote, usermeta, fexists, flen,
                   fdata, lock, pc, arg, boot, ctx, rd, fill>>

\* The client asks for the next page with the token it was given.
ListContinue ==
    /\ pg # NoPage
    /\ pg.phase = "more"
    /\ pg' = Page(pg.v, pg.filter_key, pg.max_count, pg.key, pg.first, pg.got)
    /\ UNCHANGED <<chk, hnd, av, st, inst, fi, bound, mounts, remote, usermeta, fexists, flen,
                   fdata, lock, pc, arg, boot, ctx, rd, fill>>

PageInit ==
    /\ Init
    /\ remote = ProbeObject
    /\ usermeta = InstalledMeta(remote)
    /\ mounts = {1}

PageNext == ListRequest \/ ListContinue

PageSpec == PageInit /\ [][PageNext]_vars

\* ------------------------------------------- the callbacks of the VFS bridge
Paths == {"/", "/a", "/b"}
\* What the Archive's methods return to a callback: -ENOENT, 0, a length.
Rets == {-2, 0, 1}

\* local.get_arcfs(): the pointer main hands to fuse_main as private_data,
\* to an Archive that strong Rc values own.
get_arcfs(strong) ==
    [strong |-> strong, owners |-> strong, alive |-> TRUE, aborted |-> FALSE,
     calls |-> 0, last |-> <<>>]

\* Rc::from_raw: an Rc value over the pointer, the count as it is.
Rc_from_raw(h) == [h EXCEPT !.owners = @ + 1]

\* The Rc value goes out of scope at the end of the callback.
Rc_drop(h) ==
    [h EXCEPT !.owners = @ - 1, !.strong = @ - 1, !.alive = h.strong - 1 > 0]

\* let _ = Rc::into_raw(rc): the Rc value is given up, the count as it is.
Rc_into_raw(h) == [h EXCEPT !.owners = @ - 1]

\* The body the callbacks share: from_raw, get_mut(..).unwrap(), the method
\* of the Archive, into_raw.  get_mut is None unless the count is 1: the
\* unwrap panics inside an extern "C" function and the process aborts.
\* last: the callback, its path, what it returned, whether it got as far as
\* the Archive.
with_archive(h, op, path, ret) ==
    LET h1 == Rc_from_raw(h) IN
    IF h1.strong # 1
    THEN [h1 EXCEPT !.aborted = TRUE, !.last = <<op, path, 0, TRUE>>]
    ELSE [Rc_into_raw(h1) EXCEPT !.calls = @ + 1, !.last = <<op, path, ret, TRUE>>]

\* main: the Archive of the Local is handed to fuse_main.
Mount ==
    /\ hnd = NoHandle
    /\ \E strong \in 1..MaxStrong : hnd' = get_arcfs(strong)
    /\ UNCHANGED <<chk, av, pg, st, inst, fi, bound, mounts, remote, usermeta, fexists, flen,
                   fdata, lock, pc, arg, boot, ctx, rd, fill>>

\* The mount is up and serves callbacks.
Serving == hnd.alive /\ ~hnd.aborted /\ hnd.calls < MaxCalls

ops_getattr ==
    /\ Serving
    /\ \E path \in Paths, ret \in Rets \ {1} :
          hnd' = with_archive(hnd, "ops_getattr", path, ret)
    /\ UNCHANGED <<chk, av, pg, st, inst, fi, bound, mounts, remote, usermeta, fexists, flen,
                   fdata, lock, pc, arg, boot, ctx, rd, fill>>

\* arcfs.readdir(path) is None or the entries; the callback returns 0.
ops_readdir ==
    /\ Serving
    /\ \E path \in Paths : hnd' = with_archive(hnd, "ops_readdir", path, 0)
    /\ UNCHANGED <<chk, av, pg, st, inst, fi, bound, mounts, remote, usermeta, fexists, flen,
                   fdata, lock, pc, arg, boot, ctx, rd, fill>>

ops_read ==
    /\ Serving
    /\ \E path \in Paths, ret \in Rets : hnd' = with_archive(hnd, "ops_read", path, ret)
    /\ UNCHANGED <<chk, av, pg, st, inst, fi, bound, mounts, remote, usermeta, fexists, flen,
                   fdata, lock, pc, arg, boot, ctx, rd, fill>>

ops_readlink ==
    /\ Serving
    /\ \E path \in Paths, ret \in Rets \ {1} :
          hnd' = with_archive(hnd, "ops_readlink", path, ret)
    /\ UNCHANGED <<chk, av, pg, st, inst, fi, bound, mounts, remote, usermeta, fexists, flen,
                   fdata, lock, pc, arg, boot, ctx, rd, fill>>

\* A null or empty name returns 0 before the Archive is touched.
ops_getxattr ==
    /\ Serving
    /\ \E path \in Paths, ret \in Rets, name \in {"null", "", "user.k"} :
          hnd' = IF name \in {"null", ""}
                 THEN [hnd EXCEPT !.calls = @ + 1,
                                  !.last = <<"ops_getxattr", path, 0, FALSE>>]
                 ELSE with_archive(hnd, "ops_getxattr", path, ret)
    /\ UNCHANGED <<chk, av, pg, st, inst, fi, bound, mounts, remote, usermeta, fexists, flen,
                   fdata, lock, pc, arg, boot, ctx, rd, fill>>

ops_listxattr ==
    /\ Serving
    /\ \E path \in Paths, ret \in Rets : hnd' = with_archive(hnd, "ops_listxattr", path, ret)
    /\ UNCHANGED <<chk, av, pg, st, inst, fi, bound, mounts, remote, usermeta, fexists, flen,
                   fdata, lock, pc, arg, boot, ctx, rd, fill>>

BridgeInit ==
    /\ Init
    /\ remote = ProbeObject
    /\ usermeta = InstalledMeta(remote)
    /\ mounts = {1}

BridgeNext ==
    \/ Mount
    \/ ops_getattr
    \/ ops_readdir
    \/ ops_read
    \/ ops_readlink
    \/ ops_getxattr
    \/ ops_listxattr

BridgeSpec == BridgeInit /\ [][BridgeNext]_vars

\* --------------------------------------- the mount program's command line
\* The arguments main tells apart (each option stands for its long spelling
\* too); "val" is a word that does not start with a dash.
Tokens == {"-r", "-b", "-k", "-c", "-s", "-h", "val"}

\* The command line is drawn as main reads it: front is the argument at the
\* front of args when main has looked at it already ("" when not yet, "end"
\* when args is empty), n the number of arguments read.
Fronts(n) == IF n < MaxArgs THEN Tokens \cup {"end"} ELSE {"end"}

\* The search for the single-thread setting left out.
force_single_thread_skipped(rest_args) == rest_args

\* "search for single thread setting": push "-s" unless rest_args has it.
force_single_thread(rest_args) ==
    IF \E i \in 1..Len(rest_args) : rest_args[i] = "-s"
    THEN rest_args
    ELSE Append(rest_args, "-s")

\* One turn of `while let Some(arg) = args.pop_front()` on the argument
\* word, with next the argument behind it ("end" when there is none).
parse_arg(a, word, next) ==
    LET taken == [a EXCEPT !.n = a.n + 2, !.front = ""]
        left == [a EXCEPT !.n = a.n + 1, !.front = next]
    IN
    IF word \in {"-r", "-b", "-k", "-c"}
    THEN IF next = "val"
         THEN IF word = "-r" THEN [taken EXCEPT !.region = TRUE]
              ELSE IF word = "-b" THEN [taken EXCEPT !.bucket = TRUE]
              ELSE IF word = "-k" THEN [taken EXCEPT !.key = TRUE]
              ELSE [taken EXCEPT !.cachefile = TRUE]
         ELSE [left EXCEPT !.phase = "panic"]
    ELSE IF word = "-s"
    THEN IF next = "val" THEN [taken EXCEPT !.chunksize = TRUE] ELSE left
    ELSE IF word = "-h"
    THEN [left EXCEPT !.help = TRUE, !.rest_args = Append(a.rest_args, word)]
    ELSE [left EXCEPT !.rest_args = Append(a.rest_args, word)]

\* main starts: exec goes to rest_args.
Launch ==
    /\ av = NoArgs
    /\ av' = [phase |-> "parse", n |-> 0, front |-> "", rest_args |-> <<"exec">>,
              help |-> FALSE, region |-> FALSE, bucket |-> FALSE, key |-> FALSE,
              cachefile |-> FALSE, chunksize |-> FALSE, fuse_args |-> <<>>]
    /\ UNCHANGED <<chk, hnd, pg, st, inst, fi, bound, mounts, remote, usermeta, fexists, flen,
                   fdata, lock, pc, arg, boot, ctx, rd, fill>>

ParseArg ==
    /\ av # NoArgs
    /\ av.phase = "parse"
    /\ av.front # "end"
    /\ av.n < MaxArgs
    /\ \E a \in (IF av.front = "" THEN Tokens ELSE {av.front}),
          next \in Fronts(av.n + 1) :
          av' = parse_arg(av, a, next)
    /\ UNCHANGED <<chk, hnd, pg, st, inst, fi, bound, mounts, remote, usermeta, fexists, flen,
                   fdata, lock, pc, arg, boot, ctx, rd, fill>>

\* args is empty: help, the checks of the arguments that must be there, the
\* single-thread setting, and the call of fuse_main.
EndParse ==
    /\ av # NoArgs
    /\ av.phase = "parse"
    /\ av.front \in {"", "end"}
    /\ av' = IF av.help
             THEN [av EXCEPT !.phase = "help", !.fuse_args = av.rest_args]
             ELSE IF ~av.bucket \/ ~av.key \/ ~av.cachefile
             THEN [av EXCEPT !.phase = "panic"]
             ELSE [av EXCEPT !.phase = "mount",
                             !.fuse_args = force_single_thread(av.rest_args)]
    /\ UNCHANGED <<chk, hnd, pg, st, inst, fi, bound, mounts, remote, usermeta, fexists, flen,
                   fdata, lock, pc, arg, boot, ctx, rd, fill>>

ArgsInit ==
    /\ Init
    /\ remote = ProbeObject
    /\ usermeta = InstalledMeta(remote)
    /\ mounts = {1}

ArgsNext == Launch \/ ParseArg \/ EndParse

ArgsSpec == ArgsInit /\ [][ArgsNext]_vars

\* The FileLock future wakes itself on every Pending (cx.waker().wake_by_ref()),
\* so the runtime polls it again: a fill waiting for the lock keeps polling.
FairSpec == Spec /\ \A p \in Procs : WF_vars(FillLock(p))

\* ================================================================ claims
\* The archive of process p is Ready: Local::new has returned.
Ready(p) == pc[p] \in {"made", "ready", "returned", "fill_get", "fill_lock", "fill_copy", "reread"}

\* The superblock carried by the user-metadata (when it decodes).
MetaSuper == base64_decode(usermeta.map[SB_KEY]).bytes

Chunk(chunk_log) == Pow2(chunk_log)

\* [a, b) starts on a chunk multiple and ends on one or at the end of the archive.
AlignedRange(a, b, chunk_log) ==
    /\ a % Chunk(chunk_log) = 0
    /\ b % Chunk(chunk_log) = 0 \/ b = ArchiveLen

\* The context of p holds the superblock of the archive, not a foreign or
\* an uninitialized one.
Genuine(p) ==
    /\ ctx[p].its = sb_inode_table_start(RemoteSuper(remote))
    /\ ctx[p].block_log = sb_block_log(RemoteSuper(remote))

\* The intercepted read of p has returned success for a range inside the
\* data region, behind the superblock.
DataReadDone(p) ==
    /\ pc[p] = "returned"
    /\ Genuine(p)
    /\ rd[p].ret = "OK"
    /\ rd[p].offset >= SB_SIZE
    /\ rd[p].offset + rd[p].size <= ctx[p].its

\* C1: every intercepted read of a data-region range that returns success
\* returns the remote object's bytes at the same offsets, whatever the hole
\* policy and the cache state.
C1_ReadEqualsRemote ==
    \A p \in Procs :
        DataReadDone(p) =>
            \A i \in 1..rd[p].size : rd[p].buf[i] = remote[rd[p].offset + i - 1]

\* C2: in every reachable state every materialized offset of the cache file
\* holds the remote object's byte.
C2_ByteEquivalence ==
    \A o \in Offsets : fdata[o] # Hole => fdata[o] = remote[o]

\* C3: whenever Local::new has returned (cache created or reused), every
\* byte of the metadata region [inode_table_start, length) is materialized.
C3_MetadataMaterialized ==
    \A p \in Procs :
        (pc[p] = "ready" /\ Genuine(p)) =>
            \A o \in Offsets : o >= ctx[p].its => fdata[o] # Hole

\* C4: after a bootstrap that created the cache, the first SB_SIZE bytes of
\* the cache file equal the superblock decoded from the user-metadata, and
\* equal the first SB_SIZE bytes of the remote object.
C4_SuperIdentity ==
    \A p \in Procs :
        (pc[p] = "ready" /\ ctx[p].created) =>
            /\ FileSuper = MetaSuper
            /\ FileSuper = RemoteSuper(remote)

\* C5: if the superblock in the user-metadata differs from the leading bytes
\* of the object, bootstrap fails and the archive never becomes Ready.
C5_MismatchFailsBootstrap ==
    \A p \in Procs :
        usermeta = MismatchMeta(remote) => ~(Ready(p) /\ ctx[p].created)

\* C6 (as claimed): a repeat of a read that succeeded returns the same bytes
\* and asks nothing of the remote.
C6_RepeatNoFetch ==
    \A p \in Procs :
        (pc[p] \in {"returned", "failed"} /\ rd[p].again /\ Genuine(p)) =>
            /\ rd[p].ret = "OK"
            /\ rd[p].buf = rd[p].prev
            /\ rd[p].nfetch = 0

\* C6 (amended): the same, for a repeat in LSEEK mode, or in ALLZERO mode of
\* a read that served a byte other than zero.
C6_RepeatNoFetchUnlessZero ==
    \A p \in Procs :
        (/\ pc[p] \in {"returned", "failed"}
         /\ rd[p].again
         /\ arg[p].hdmode = "LSEEK" \/ ~is_zero(rd[p].prev)) =>
            /\ rd[p].ret = "OK"
            /\ rd[p].buf = rd[p].prev
            /\ rd[p].nfetch = 0

\* A repeat has returned for a data-region read whose first issue fetched.
C6_Witness ==
    \E p \in Procs :
        /\ pc[p] = "returned"
        /\ rd[p].again
        /\ rd[p].pfetch = 1
        /\ arg[p].hdmode = "LSEEK"
        /\ rd[p].ret = "OK"

\* The step in which a forced bootstrap reopens the cache file with truncate.
ForcedTruncate ==
    \E p \in Procs : pc[p] = "create" /\ arg[p].force /\ pc'[p] = "eof"

\* C7 (as claimed): no operation removes an offset from the materialized set.
C7_Monotonic ==
    [][Materialized \subseteq Materialized']_vars

\* C7 (amended): no operation other than the truncation of a forced
\* bootstrap removes an offset from the materialized set.
C7_MonotonicButForce ==
    [][~ForcedTruncate => Materialized \subseteq Materialized']_vars

\* A fill has failed part-way and what it wrote is still materialized.
C7_Witness ==
    \E p \in Procs :
        /\ fill[p].res = "Transport"
        /\ fill[p].pos > fill[p].start
        /\ \A o \in fill[p].start..(fill[p].pos - 1) : o \in Materialized

\* The fill of p has ended (Ok or Err) after it was granted a stream.
FillEnded(p) == fill[p].res # "none" /\ fill[p].to > 0

\* C8 (as claimed): every fill writes one interval [a, b) with a on a chunk
\* multiple and b on a chunk multiple or at the archive length.
C8_FillAligned ==
    \A p \in Procs :
        (FillEnded(p) /\ Genuine(p) /\ fill[p].pos > fill[p].start) =>
            AlignedRange(fill[p].start, fill[p].pos, ctx[p].chunk_log)

\* C8 (amended): every fill that completes has written one interval [a, b)
\* with a on a chunk multiple and b on a chunk multiple or at the archive
\* length; a fill that fails has written a prefix [a, b') of that interval.
C8_CompleteFillAligned ==
    \A p \in Procs :
        FillEnded(p) =>
            /\ AlignedRange(fill[p].start, fill[p].to, ctx[p].chunk_log)
            /\ fill[p].start <= fill[p].pos /\ fill[p].pos <= fill[p].to
            /\ fill[p].res = "Ok" => fill[p].pos = fill[p].to

\* A fill has completed over more than one chunk.
C8_Witness ==
    \E p \in Procs :
        /\ fill[p].res = "Ok"
        /\ fill[p].pos - fill[p].start > Chunk(ctx[p].chunk_log)

\* C9 (as claimed): every range written to the cache file (the end-of-file
\* byte, the superblock and the metadata region of bootstrap, every fill)
\* starts and ends on a chunk multiple, or ends at end-of-file.
C9_AllWritesAligned ==
    \A p \in Procs :
        /\ pc[p] = "sb" =>
              AlignedRange(boot[p].filesize - 1, boot[p].filesize,
                           ChunkLogOf(arg[p].chunk_size, sb_block_size(boot[p].sb_bin),
                                      sb_block_log(boot[p].sb_bin)))
        /\ pc[p] = "range" => AlignedRange(0, SB_SIZE, boot[p].chunk_log)
        /\ (pc[p] = "open" /\ boot[p].head = "ok") =>
              AlignedRange(boot[p].meta_start, boot[p].pos, boot[p].chunk_log)
        /\ (FillEnded(p) /\ fill[p].pos > fill[p].start) =>
              AlignedRange(fill[p].start, fill[p].pos, ctx[p].chunk_log)

\* C9 (amended): the metadata range bootstrap copies and the range of every
\* fill start on a chunk multiple and, once the copy completes, end at
\* end-of-file (bootstrap) or on a chunk multiple or at end-of-file (fill).
\* The end-of-file byte and the superblock of bootstrap are not aligned.
C9_CopiesAligned ==
    \A p \in Procs :
        /\ boot[p].to > 0 =>
              /\ boot[p].meta_start % Chunk(boot[p].chunk_log) = 0
              /\ boot[p].meta_start <= sb_inode_table_start(boot[p].sb_bin)
              /\ pc[p] = "open" => boot[p].pos = ArchiveLen
        /\ FillEnded(p) => fill[p].start % Chunk(ctx[p].chunk_log) = 0
        /\ (FillEnded(p) /\ fill[p].res = "Ok") =>
              AlignedRange(fill[p].start, fill[p].pos, ctx[p].chunk_log)

\* Bootstrap has copied a metadata range that starts below inode_table_start.
C9_Witness ==
    \E p \in Procs :
        /\ pc[p] = "open"
        /\ boot[p].head = "ok"
        /\ boot[p].meta_start < sb_inode_table_start(boot[p].sb_bin)
        /\ boot[p].pos = ArchiveLen

\* The fill of p has ended in an error.
FillFailed(p) == fill[p].res \notin {"none", "Ok"}

\* C11: when the fill a read asked for fails (range request, open or seek of
\* the cache file, lock, stream copy, flush), the read returns SQFS_ERROR_IO
\* and the underlying read is not issued again: no bytes are served.
C11_FillFailureIsIo ==
    \A p \in Procs :
        FillFailed(p) =>
            /\ pc[p] = "returned"
            /\ rd[p].ret = "SQFS_ERROR_IO"
            /\ rd[p].buf = <<>>

\* A read has returned after its fill timed out on the lock.
C11_Witness ==
    \E p \in Procs :
        /\ fill[p].res = "TimedOut"
        /\ pc[p] = "returned"
        /\ rd[p].ret = "SQFS_ERROR_IO"

\* C12: after a fill that failed part-way (nothing is rolled back, C7), a
\* retry of the same read that returns success returns the remote object's
\* bytes.
C12_RetryReadsRemote ==
    \A p \in Procs :
        (/\ pc[p] = "returned"
         /\ rd[p].retry
         /\ rd[p].ret = "OK"
         /\ Genuine(p)
         /\ ctx[p].created
         /\ rd[p].offset >= SB_SIZE
         /\ rd[p].offset + rd[p].size <= ctx[p].its) =>
            \A i \in 1..rd[p].size : rd[p].buf[i] = remote[rd[p].offset + i - 1]

\* C13: fills never write to the cache concurrently: a fill writes only
\* while it holds the exclusive lock, and no two fills are writing at once.
C13_FillWritesUnderLock ==
    /\ \A p \in Procs : pc[p] = "fill_copy" => lock = p
    /\ \A p, q \in Procs : (pc[p] = "fill_copy" /\ pc[q] = "fill_copy") => p = q

\* One fill is writing while the fill of another process waits for the lock.
C13_Witness ==
    \E p, q \in Procs :
        /\ pc[p] = "fill_copy"
        /\ fill[p].pos > fill[p].start
        /\ pc[q] = "fill_lock"
        /\ fill[q].elapsed > 0

\* C14: the lock is released on every way out of a fill: it is held only by
\* a fill that is still copying, so a finished fill blocks no later one.
C14_LockReleased ==
    \A p \in Procs : lock = p => pc[p] = "fill_copy"

\* A fill has failed while it held the lock, and the lock is free.
C14_Witness ==
    \E p \in Procs :
        /\ fill[p].res \in {"Transport", "Io"}
        /\ fill[p].to > 0
        /\ lock = NoProc

\* C15: a fill waiting for the lock leaves the wait: it acquires the lock
\* or fails; it fails with TimedOut only once LOCK_TIMEOUT has elapsed with
\* the lock held, it never waits beyond LOCK_TIMEOUT, and a lock error other
\* than would-block ends the fill at the poll that met it.
C15_LockWaitBounded ==
    /\ [](\A p \in Procs :
            /\ fill[p].elapsed <= LOCK_TIMEOUT
            /\ fill[p].res = "TimedOut" => fill[p].elapsed = LOCK_TIMEOUT
            /\ fill[p].res = "Other" => pc[p] = "returned")
    /\ \A p \in Procs : (pc[p] = "fill_lock") ~> (pc[p] # "fill_lock")

\* A fill has timed out after waiting LOCK_TIMEOUT for a lock another holds.
C15_Witness ==
    \E p \in Procs :
        /\ fill[p].res = "TimedOut"
        /\ fill[p].elapsed = LOCK_TIMEOUT
        /\ lock \notin {NoProc, p}

\* C16: the worker of a fill has ended before the interceptor issues the
\* final read or returns: its result is recorded, a fill that reports Ok has
\* written its whole range, and it no longer holds the lock.
C16_FillJoined ==
    \A p \in Procs :
        (pc[p] \in {"reread", "returned"} /\ fill[p].end > 0) =>
            /\ fill[p].res # "none"
            /\ fill[p].res = "Ok" => fill[p].pos = fill[p].to
            /\ lock # p

\* The interceptor is about to issue the final read behind a completed fill.
C16_Witness ==
    \E p \in Procs :
        /\ pc[p] = "reread"
        /\ fill[p].res = "Ok"
        /\ fill[p].pos = fill[p].to
        /\ fill[p].to > fill[p].start

\* An intercepted read of p has been entered and has not yet been handed
\* back to the archive library's caller.
InHook(p) == rd[p].size > 0

\* C17: an operation binds the context before it calls the archive library
\* and unbinds it when it returns: a read runs with the Local of its archive
\* bound, and between operations (looked at once the cache holds its whole
\* metadata region) nothing is bound.
C17_BoundOnlyDuringOperation ==
    \A p \in Procs :
        /\ InHook(p) => bound[p] = ctx[p]
        /\ (pc[p] = "idle" /\ TablesIntact(sb_inode_table_start(RemoteSuper(remote)))) =>
              bound[p] = NoCtx

\* C18: whenever the intercepted read runs, a context is bound on the
\* calling thread and it is the Local of the archive that is being read.
C18_ContextBoundInHook ==
    \A p \in Procs :
        InHook(p) =>
            /\ bound[p] # NoCtx
            /\ bound[p] = ctx[p]

\* A read is filling the cache for an archive opened on a reused cache file.
C18_Witness ==
    \E p \in Procs :
        /\ InHook(p)
        /\ pc[p] = "fill_copy"
        /\ ~ctx[p].created
        /\ bound[p] = ctx[p]

\* The access mode of an open request: the two low bits of its flags.
AccessMode(flags) == flags % (O_ACCMODE + 1)

\* C19: an open whose access mode is not read-only is answered -EACCES; a
\* read-only open is answered 0; neither changes any state of the mount.
C19_OpenReadOnly ==
    [][fi' # fi =>
          /\ AccessMode(fi'.flags) # O_RDONLY => fi'.ret = -EACCES
          /\ AccessMode(fi'.flags) = O_RDONLY => fi'.ret = 0
          /\ UNCHANGED <<chk, hnd, av, pg, st, inst, bound, mounts, remote, usermeta, fexists, flen, fdata, lock,
                         pc, arg, boot, ctx, rd, fill>>]_vars

\* A read-write open with further flag bits set has been turned away.
C19_Witness ==
    /\ fi.called
    /\ AccessMode(fi.flags) = 2
    /\ fi.flags > O_ACCMODE
    /\ fi.ret = -EACCES

\* C20: an intercepted read whose offset lies at or beyond the archive
\* length is answered SQFS_ERROR_OUT_OF_BOUNDS (shown for a cache made by a
\* bootstrap of the archive's own superblock).
C20_BeyondEndIsOutOfBounds ==
    \A p \in Procs :
        (/\ InHook(p)
         /\ rd[p].ret # "none"
         /\ Genuine(p)
         /\ ctx[p].created
         /\ rd[p].offset >= ArchiveLen) =>
            rd[p].ret = "SQFS_ERROR_OUT_OF_BOUNDS"

\* C21: a failure at any bootstrap step is terminal: a process that failed
\* goes nowhere but to its end, and Archive::new_from_sparse hands out an
\* archive (with the hook installed) only when the superblock was read and
\* the tables behind inode_table_start loaded (shown for a program that has
\* the cache path to itself).
C21_BootstrapFailureTerminal ==
    [][\A p \in Procs :
          /\ pc[p] = "failed" => pc'[p] \in {"failed", "idle"}
          /\ (mounts = {p} /\ pc[p] = "open" /\ pc'[p] = "made") =>
                /\ SuperValid(FileSuper)
                /\ TablesIntact(sb_inode_table_start(FileSuper))]_vars

\* The chunk that holds offset o is [ChunkStart, ChunkEnd).
ChunkStart(o, chunk_log) == (o \div Chunk(chunk_log)) * Chunk(chunk_log)
ChunkEnd(o, chunk_log) == ChunkStart(o, chunk_log) + Chunk(chunk_log)

\* The range [offset, offset + size) lies in more than one chunk.
SpansBoundary(offset, size, chunk_log) ==
    ChunkStart(offset, chunk_log) # ChunkStart(offset + size - 1, chunk_log)

\* The remote has granted the fill of p a stream.
FillGranted(p) == fill[p].to > 0

\* C22 (as claimed): one intercepted read asks the remote for at most one
\* range, and when the range read spans a chunk boundary the fill covers the
\* chunks on both sides: from the start of the chunk of the first byte read
\* to the end of the chunk of the last (or the end of the archive).
C22_OneFillBothSides ==
    \A p \in Procs :
        /\ rd[p].nfetch <= 1
        /\ (/\ InHook(p)
            /\ FillGranted(p)
            /\ SpansBoundary(rd[p].offset, rd[p].size, bound[p].chunk_log)) =>
              /\ fill[p].start <= ChunkStart(rd[p].offset, bound[p].chunk_log)
              /\ fill[p].to >= Min({ChunkEnd(rd[p].offset + rd[p].size - 1,
                                              bound[p].chunk_log), ArchiveLen})

\* C22 (amended): one intercepted read asks the remote for at most one
\* range, and the fill covers every chunk from the one that holds the first
\* missing byte of the range read to the one that holds its last byte (or
\* the end of the archive); chunks in front of the first missing byte are
\* not fetched.
C22_OneFillFromFirstHole ==
    \A p \in Procs :
        /\ rd[p].nfetch <= 1
        /\ (InHook(p) /\ FillGranted(p)) =>
              /\ fill[p].start_offset >= rd[p].offset
              /\ fill[p].start = ChunkStart(fill[p].start_offset, bound[p].chunk_log)
              /\ fill[p].to >= Min({ChunkEnd(rd[p].offset + rd[p].size - 1,
                                              bound[p].chunk_log), ArchiveLen})

\* A fill was granted for a read that spans a chunk boundary, and it starts
\* behind the chunk of the first byte read.
C22_Witness ==
    \E p \in Procs :
        /\ InHook(p)
        /\ FillGranted(p)
        /\ SpansBoundary(rd[p].offset, rd[p].size, bound[p].chunk_log)
        /\ fill[p].start > ChunkStart(rd[p].offset, bound[p].chunk_log)
        /\ fill[p].res = "Ok"

\* The step in which the archive library's read of p enters archive_read_at.
HookEntered(p) ==
    /\ pc[p] \in {"ready", "returned"}
    /\ pc'[p] \in {"returned", "fill_get", "failed"}
    /\ pc'[p] # pc[p] \/ rd'[p] # rd[p]
    /\ rd'[p].size > 0

\* C23: an intercepted read at an offset from inode_table_start up to and
\* including the archive length is handed to the original read at once: it
\* returns what that read returns on the file as it stands, asks for no fill
\* and no remote range, and leaves the cache file alone.
C23_MetadataReadDelegated ==
    [][\A p \in Procs :
          (/\ HookEntered(p)
           /\ rd'[p].offset >= bound[p].its
           /\ rd'[p].offset <= bound[p].size) =>
              /\ pc'[p] = "returned"
              /\ rd'[p].ret = original_read_at(rd'[p].offset, rd'[p].size).ret
              /\ rd'[p].buf = original_read_at(rd'[p].offset, rd'[p].size).buf
              /\ rd'[p].nfetch = 0
              /\ fill'[p] = NoFill
              /\ UNCHANGED <<flen, fdata, lock>>]_vars

\* A read at the archive length itself has returned without a fetch.
C23_Witness ==
    \E p \in Procs :
        /\ pc[p] = "returned"
        /\ Genuine(p)
        /\ ctx[p].created
        /\ rd[p].size > 0
        /\ rd[p].offset = bound[p].size
        /\ rd[p].offset = ArchiveLen
        /\ rd[p].ret = "SQFS_ERROR_OUT_OF_BOUNDS"
        /\ rd[p].nfetch = 0

\* The positions of Local::new inside its bootstrap branch.
BootPcs == {"head", "create", "eof", "sb", "range", "copy"}

\* C24: when the cache path exists and force is false, Local::new sends the
\* remote neither a head nor a range request and leaves the cache file as it
\* is; its bootstrap contacts the remote only when the path is absent or
\* force is true.
C24_ReuseContactsNoRemote ==
    /\ [](\A p \in Procs :
            /\ (boot[p].nhead > 0 \/ boot[p].nrange > 0) => (~arg[p].exists \/ arg[p].force)
            /\ (pc[p] # "idle" /\ arg[p].exists /\ ~arg[p].force) =>
                  (boot[p] = NoBoot /\ pc[p] \notin BootPcs))
    /\ [][\A p \in Procs :
            (/\ arg'[p].exists /\ ~arg'[p].force
             /\ pc[p] \in {"idle", "open"}
             /\ pc'[p] # pc[p]) =>
                UNCHANGED <<fexists, flen, fdata>>]_vars

\* Local::new has returned on a cache file it found and did not remake.
C24_Witness ==
    \E p \in Procs :
        /\ pc[p] = "ready"
        /\ arg[p].exists /\ ~arg[p].force
        /\ boot[p] = NoBoot
        /\ TablesIntact(ctx[p].its)
        /\ Genuine(p)

\* C25: a bootstrap that creates the cache sends one head and one range
\* request, the range [inode_table_start rounded down to a chunk multiple,
\* length - 1], in the order head, sparse file of the remote length,
\* superblock at 0, metadata range; behind it the cache file is as long as
\* the remote object and nothing of the data region in front of the aligned
\* metadata start is materialized.
C25_BootstrapOrder ==
    \A p \in Procs :
        /\ boot[p].nhead <= 1 /\ boot[p].nrange <= 1
        /\ pc[p] \in BootPcs \ {"head"} => (boot[p].nhead = 1 /\ boot[p].head = "ok")
        /\ pc[p] \in {"head", "create", "eof", "sb", "range"} => boot[p].nrange = 0
        /\ pc[p] \in {"sb", "range", "copy"} =>
              (flen = ArchiveLen /\ boot[p].filesize = ArchiveLen)
        /\ pc[p] \in {"range", "copy"} => FileSuper = boot[p].sb_bin
        /\ boot[p].nrange = 1 =>
              /\ boot[p].rstart = ChunkStart(sb_inode_table_start(boot[p].sb_bin),
                                             boot[p].chunk_log)
              /\ boot[p].rend = ArchiveLen - 1
        /\ (pc[p] = "open" /\ boot[p].nhead = 1) =>
              /\ boot[p].nrange = 1
              /\ flen = ArchiveLen
              /\ mounts = {p} =>
                    \A o \in Materialized : o < SB_SIZE \/ o >= boot[p].rstart

\* A forced bootstrap has remade the cache, its range starting in front of
\* inode_table_start.
C25_Witness ==
    \E p \in Procs :
        /\ pc[p] = "open"
        /\ arg[p].force /\ arg[p].exists
        /\ boot[p].nhead = 1 /\ boot[p].nrange = 1
        /\ boot[p].rstart < sb_inode_table_start(boot[p].sb_bin)
        /\ flen = ArchiveLen

\* C26: for an archive uploaded by install, the head of the object finds the
\* superblock under the key install wrote and returns the first SB_SIZE bytes
\* of the archive and its length.
C26_InstallHeadRoundTrip ==
    \A p \in Procs :
        (inst.res = "Ok" /\ boot[p].head # "none" /\ boot[p].kind # "Transport") =>
            /\ boot[p].head = "ok"
            /\ boot[p].sb_bin = <<inst.from[0], inst.from[1]>>
            /\ boot[p].filesize = ArchiveLen

\* C27: for every inode type the stat made has st_mode & S_IFMT equal to the
\* file-type bits of the type, st_nlink at least 1 (the inode's nlink, or 1
\* for the basic regular file), st_size at least 0, and for a symlink
\* st_size equal to the length of its target.
C27_StatTypeNlinkSize ==
    (st.called /\ st.out.t = "ok") =>
        /\ BitAnd(st.out.st_mode, S_IFMT) = FileTypeBits[st.inode.type]
        /\ st.out.st_nlink >= 1
        /\ st.out.st_nlink = (IF st.inode.type = "FILE" THEN 1 ELSE st.inode.nlink)
        /\ st.out.st_size >= 0
        /\ st.inode.type \in SlinkTypes => st.out.st_size = st.inode.size

\* The stat of an extended socket with more than one link has been made.
C27_Witness ==
    /\ st.called
    /\ st.out.t = "ok"
    /\ st.inode.type = "EXT_SOCKET"
    /\ st.inode.nlink > 1
    /\ st.out.st_nlink = st.inode.nlink
    /\ BitAnd(st.out.st_mode, S_IFMT) = S_IFSOCK

\* C28: every stat made has st_blksize 4096 and st_atime, st_mtime and
\* st_ctime equal to the inode's mod_time.
C28_StatBlksizeTimes ==
    (st.called /\ st.out.t = "ok") =>
        /\ st.out.st_blksize = 4096
        /\ st.out.st_atime = st.inode.mod_time
        /\ st.out.st_mtime = st.inode.mod_time
        /\ st.out.st_ctime = st.inode.mod_time

\* x rounded up to a multiple of the chunk, x itself when it is one.
RoundUp(x, chunk_log) ==
    ((x + Chunk(chunk_log) - 1) \div Chunk(chunk_log)) * Chunk(chunk_log)

\* C29: the window a fill asks for is [aligned_start, aligned_end - 1] with
\* aligned_start the start offset rounded down to a chunk multiple and
\* aligned_end the end of the request rounded up to one (unchanged when it
\* is one already), clipped to the archive length.
C29_FillWindow ==
    \A p \in Procs :
        (fill[p].end > 0 /\ Genuine(p) /\ ctx[p].created) =>
            /\ fill[p].start = ChunkStart(fill[p].start_offset, bound[p].chunk_log)
            /\ Min({fill[p].end, ArchiveLen}) =
                  Min({RoundUp(fill[p].start_offset + fill[p].req_size, bound[p].chunk_log),
                       ArchiveLen})

\* C30: in LSEEK mode a read (offset, size) in front of inode_table_start,
\* with h = seek_hole(offset) on the file as it stands, asks for a fill iff
\* h < offset + size, and then for start h and length offset + size - h;
\* with h >= offset + size it asks nothing of the remote.  (A seek that
\* fails ends the read with an error code and no fill.)
C30_LseekFillFromHole ==
    [][\A p \in Procs :
          (/\ HookEntered(p)
           /\ arg[p].hdmode = "LSEEK"
           /\ bound[p] # NoCtx
           /\ rd'[p].offset < bound[p].its) =>
              LET offset == rd'[p].offset
                  size == rd'[p].size
                  h == seek_hole(offset)
              IN  IF h < 0 \/ (pc'[p] = "returned" /\ rd'[p].ret = "SQFS_ERROR_IO")
                  THEN /\ pc'[p] = "returned"
                       /\ rd'[p].ret \in {"SQFS_ERROR_IO", "SQFS_ERROR_OUT_OF_BOUNDS"}
                       /\ rd'[p].nfetch = 0
                       /\ fill'[p] = NoFill
                  ELSE /\ pc'[p] = "fill_get" <=> h < offset + size
                       /\ pc'[p] = "fill_get" =>
                             /\ fill'[p].start_offset = h
                             /\ fill'[p].req_size = offset + size - h
                       /\ h >= offset + size =>
                             /\ pc'[p] = "returned"
                             /\ rd'[p].nfetch = 0
                             /\ fill'[p] = NoFill]_vars

\* In LSEEK mode a fill has been asked for that starts at a hole behind the
\* offset of the read, in the data region of the archive.
C30_Witness ==
    \E p \in Procs :
        /\ pc[p] = "fill_get"
        /\ arg[p].hdmode = "LSEEK"
        /\ Genuine(p)
        /\ rd[p].offset >= SB_SIZE
        /\ rd[p].offset + rd[p].size <= ctx[p].its
        /\ fill[p].start_offset > rd[p].offset
        /\ fill[p].req_size = rd[p].offset + rd[p].size - fill[p].start_offset

\* C31: in ALLZERO mode a read (offset, size) in front of inode_table_start
\* is first served by the original read on the file as it stands.  A code
\* other than success is returned as it is, with no fill.  A buffer of zero
\* bytes only asks for a fill of exactly (offset, size), whether or not the
\* range is materialized.  A buffer with a non-zero byte is returned with no
\* fill and no remote request.
C31_AllZeroClassification ==
    [][\A p \in Procs :
          (/\ HookEntered(p)
           /\ arg[p].hdmode = "ALLZERO"
           /\ bound[p] # NoCtx
           /\ rd'[p].offset < bound[p].its) =>
              LET offset == rd'[p].offset
                  size == rd'[p].size
                  r == original_read_at(offset, size)
              IN  IF r.ret # "OK"
                  THEN /\ pc'[p] = "returned"
                       /\ rd'[p].ret = r.ret
                       /\ rd'[p].nfetch = 0
                       /\ fill'[p] = NoFill
                  ELSE IF is_zero(r.buf)
                  THEN /\ pc'[p] = "fill_get"
                       /\ fill'[p].start_offset = offset
                       /\ fill'[p].req_size = size
                  ELSE /\ pc'[p] = "returned"
                       /\ rd'[p].ret = "OK"
                       /\ rd'[p].buf = r.buf
                       /\ rd'[p].nfetch = 0
                       /\ fill'[p] = NoFill]_vars

\* In ALLZERO mode a fill has been asked for a range of the data region that
\* is materialized already and reads as zero bytes.
C31_Witness ==
    \E p \in Procs :
        /\ pc[p] = "fill_get"
        /\ arg[p].hdmode = "ALLZERO"
        /\ Genuine(p)
        /\ rd[p].offset >= SB_SIZE
        /\ rd[p].offset + rd[p].size <= ctx[p].its
        /\ \A o \in rd[p].offset..(rd[p].offset + rd[p].size - 1) : fdata[o] = 0
        /\ fill[p].start_offset = rd[p].offset
        /\ fill[p].req_size = rd[p].size

\* C33: Archive::stat returns for every inode with sparse <= size, without an
\* arithmetic underflow; st_blocks of a basic regular file is 0 when the file
\* is empty and ((size - 1) >> 9) + 1 otherwise; st_blocks of an extended
\* regular file is (size - sparse + 511) >> 9.
C33_StatBlocks ==
    st.called =>
        /\ st.out.t = "ok"
        /\ st.inode.type = "FILE" =>
              st.out.st_blocks = IF st.inode.size = 0 THEN 0
                                 ELSE Shr(st.inode.size - 1, 9) + 1
        /\ st.inode.type = "EXT_FILE" =>
              st.out.st_blocks = Shr(st.inode.size - st.inode.sparse + 511, 9)

\* C38: a step of a fill that does not hold the lock (the range request, the
\* open and seek of the cache file, the wait for the lock, and the failure of
\* any of them) leaves the length and every byte of the cache file as they
\* were; the file changes in a step of a fill only while that fill holds the
\* lock.
C38_NoWriteWithoutLock ==
    [][\A p \in Procs :
          (/\ pc[p] \in {"fill_get", "fill_lock", "fill_copy"}
           /\ pc'[p] # pc[p] \/ fill'[p] # fill[p]
           /\ lock # p) =>
              /\ pc[p] \in {"fill_get", "fill_lock"}
              /\ UNCHANGED <<flen, fdata>>]_vars

\* A fill has failed on the lock (timeout, or an error of flock) while the
\* range it was to write is still a hole.
C38_Witness ==
    \E p \in Procs :
        /\ pc[p] = "returned"
        /\ fill[p].res \in {"TimedOut", "Other"}
        /\ rd[p].ret = "SQFS_ERROR_IO"
        /\ Genuine(p)
        /\ lock # p
        /\ \A o \in fill[p].start..(fill[p].to - 1) : fdata[o] = Hole

\* C37: while one process is inside the bootstrap of a cache path (the file
\* is created, the metadata range not yet written in full), another process
\* that found the path present does not get its Archive unless the file
\* holds a superblock that validates and the whole metadata region of the
\* archive, and every read it is served returns the bytes of the remote
\* object.
C37_NoOpenDuringBootstrap ==
    /\ [][\A p, q \in Procs :
             (/\ p # q
              /\ pc[p] \in BootPcs
              /\ arg[q].exists
              /\ pc[q] = "open"
              /\ pc'[q] = "made") =>
                 /\ SuperValid(FileSuper)
                 /\ FileSuper = RemoteSuper(remote)
                 /\ TablesIntact(sb_inode_table_start(FileSuper))]_vars
    /\ [](\A p, q \in Procs :
             (/\ p # q
              /\ pc[p] \in BootPcs
              /\ arg[q].exists
              /\ pc[q] = "returned"
              /\ rd[q].ret = "OK") =>
                 \A i \in 1..Len(rd[q].buf) :
                     rd[q].buf[i] = remote[rd[q].offset + i - 1])

\* C34: the read slot of the archive's file holds the hook only once
\* Archive::new_from_sparse is through with its loads, and the step that
\* constructs the archive enters no hook, asks for no fill and leaves the
\* cache file alone; from then on the read slot holds the hook and the slot
\* the hook delegates through holds the library's own read, so that a read
\* the hook serves returns the bytes of that read on the file.
C34_HookInstalledLast ==
    /\ [](\A p \in Procs :
             /\ pc[p] \in {"idle", "open"} \cup BootPcs =>
                    ctx[p].read_at # "archive_read_at"
             /\ Ready(p) => /\ ctx[p].read_at = "archive_read_at"
                             /\ ctx[p].write_at = "stdio_read_at")
    /\ [][\A p \in Procs :
             /\ (pc[p] = "open" /\ pc'[p] # "open") =>
                    /\ UNCHANGED <<rd, fill, flen, fdata, lock>>
                    /\ rd[p].size = 0
             /\ (HookEntered(p) /\ pc'[p] = "returned" /\ rd'[p].ret = "OK") =>
                    rd'[p].buf = original_read_at(rd'[p].offset, rd'[p].size).buf
             /\ (pc[p] = "reread" /\ pc'[p] = "returned") =>
                    /\ rd'[p].ret = original_read_at(rd[p].offset, rd[p].size).ret
                    /\ rd'[p].buf = original_read_at(rd[p].offset, rd[p].size).buf]_vars

\* A read of the metadata region has gone through the hook of an archive
\* made from a fresh bootstrap and come back with the bytes of the file.
C34_Witness ==
    \E p \in Procs :
        /\ pc[p] = "returned"
        /\ ctx[p].created
        /\ Genuine(p)
        /\ ctx[p].read_at = "archive_read_at"
        /\ ctx[p].write_at = "stdio_read_at"
        /\ rd[p].size > 0
        /\ rd[p].offset >= ctx[p].its
        /\ rd[p].ret = "OK"
        /\ rd[p].buf = original_read_at(rd[p].offset, rd[p].size).buf

\* C32: for every chunk size a user gives (none, zero, up to and beyond
\* MAX_CHUNK_SIZE) chunk_log is the larger of block_log and
\* floor(log2(chunk_size)), and at most log2(MAX_CHUNK_SIZE); the chunk is a
\* power of two no smaller than the block; bootstrap and later fills use the
\* same value.
C32_ChunkLogIsFloorLog2 ==
    chk.called =>
        LET user == IF chk.opt_chunk_size = <<>> THEN 0 ELSE chk.opt_chunk_size[1]
            want == Min({FloorLog2(MAX_CHUNK_SIZE),
                         Max({chk.block_log, FloorLog2(user)})})
        IN  /\ chk.chunk_log = want
            /\ chk.boot_log = chk.chunk_log
            /\ Pow2(chk.chunk_log) >= Pow2(chk.block_log)

\* The entries of v with the prefix f, in the order of v.
Matching(v, f) == SelectSeq(v, LAMBDA x : starts_with(x, f))

\* The entries of v behind the entry named by the token (all of v without a
\* token, none when no entry has that name).
Behind(v, token) ==
    IF token = <<>> THEN v
    ELSE IF \E i \in 1..Len(v) : v[i] = token[1]
    THEN SubSeq(v, (CHOOSE i \in 1..Len(v) : v[i] = token[1]) + 1, Len(v))
    ELSE <<>>

\* C39: every request, for any entry list, prefix and max_count >= 0, gets a
\* page: the first max_count of the matching entries behind the token, and a
\* key iff matching entries remain behind the page; a token that names no
\* entry gets an empty page and no key; a listing followed from no token
\* through the keys returned ends with every matching entry once, in order.
C39_Pagination ==
    pg # NoPage =>
        LET m == Matching(Behind(pg.v, pg.last_end), pg.filter_key) IN
        /\ pg.phase # "panic"
        /\ Len(pg.page) <= pg.max_count
        /\ pg.page = SubSeq(m, 1, Len(pg.page))
        /\ pg.key # <<>> <=> Len(m) > Len(pg.page)
        /\ (pg.last_end # <<>> /\ \A i \in 1..Len(pg.v) : pg.v[i] # pg.last_end[1]) =>
              (pg.page = <<>> /\ pg.key = <<>>)
        /\ (pg.phase = "done" /\ pg.first = <<>>) =>
              pg.got = Matching(pg.v, pg.filter_key)

\* C35: a callback of the bridge (getattr, readdir, read, readlink,
\* getxattr, listxattr) that returns leaves the count of the Archive handle
\* and the number of its owners as they were and the Archive alive; the
\* Archive of a mount that has served callbacks has not been dropped.
C35_CallbacksKeepCount ==
    /\ [][(hnd # NoHandle /\ hnd'.calls = hnd.calls + 1) =>
             /\ hnd'.strong = hnd.strong
             /\ hnd'.owners = hnd.owners
             /\ hnd'.alive]_vars
    /\ [](hnd.calls > 0 => (hnd.alive /\ hnd.strong >= 1))

\* A mount has served several callbacks, the last one a getxattr that went
\* to the Archive, and the handle still has its one owner.
C35_Witness ==
    /\ hnd.calls >= 2
    /\ hnd.alive
    /\ hnd.strong = 1
    /\ hnd.owners = 1
    /\ hnd.last[1] = "ops_getxattr"
    /\ hnd.last[4]

\* The argument list handed to fuse_main holds the single-thread flag.
HasSingleThread == \E i \in 1..Len(av.fuse_args) : av.fuse_args[i] = "-s"

\* C36: for every command line, whenever main hands an argument list to
\* fuse_main, the list holds "-s".
C36_SingleThreadAlways ==
    (av # NoArgs /\ av.phase \in {"help", "mount"}) => HasSingleThread

\* C36, amended: whenever main mounts (no help asked, bucket, key and cache
\* file given), the argument list handed to fuse_main holds "-s", and it is
\* the arguments main passed through with at most that flag added.
C36_SingleThreadOnMount ==
    (av # NoArgs /\ av.phase = "mount") =>
        /\ HasSingleThread
        /\ av.fuse_args \in {av.rest_args, Append(av.rest_args, "-s")}

\* main mounts with the mount point and the flag it added, having dropped or
\* taken as chunk size whatever "-s" the user gave.
C36_Witness ==
    /\ av # NoArgs
    /\ av.phase = "mount"
    /\ av.fuse_args = <<"exec", "val", "-s">>

\* C10: get_metadata returns an error value, and no superblock, when the
\* object has no user-metadata, lacks the superblock key, carries a value
\* that does not decode, or one whose decoded length is not SB_SIZE.
C10_HeadRejects ==
    \A p \in Procs :
        (boot[p].head # "none" /\ usermeta \in BadMetas(remote)) =>
            /\ boot[p].head = "err"
            /\ boot[p].kind \in {"Transport", "NotFound", "InvalidData"}
            /\ boot[p].sb_bin = <<>>

\* get_metadata has rejected an object without user-metadata.
C10_Witness ==
    \E p \in Procs :
        /\ usermeta.map = <<>>
        /\ boot[p].head = "err"
        /\ boot[p].kind = "InvalidData"


====
